---- MODULE Spec2Model ----
(***************************************************************************)
(* A model of the batch orchestration core of ai-sprite-image-generator:   *)
(* the sliding-window RateLimiter and executeWithRateLimit                 *)
(* (src/src/types.ts), createTask and pollTaskStatus (src/unnamed/part_004)*)
(* and generateImages / processBatch (src/src/lib.ts).                     *)
(*                                                                         *)
(* JavaScript runs every handler to completion: an action below is one     *)
(* event (a call, a timer firing, an I/O completion) together with every   *)
(* synchronous step and microtask continuation it triggers.                *)
(***************************************************************************)
EXTENDS Integers, Sequences, FiniteSets, TLC

VARIABLES
    now,          \* Date.now()
    rlMax,        \* RateLimiter.maxRequests
    rlWindow,     \* RateLimiter.windowMs
    timestamps,   \* RateLimiter.timestamps
    admits,       \* history: admission times still inside the trailing window
    caller,       \* the concurrent callers of acquire(): [pc, wakeAt] and the
                  \* history of the last call: oldest, admittedAt
    ct,           \* one createTask call: its locals, requests, waits and outcome
    poll,         \* one pollTaskStatus call: its locals, fetches, waits and outcome
    ex,           \* one executeWithRateLimit call: index, executing, results, tasks
    slots,        \* the last availableSlots(): the value it returned (value) and
                  \* the admissions then inside the trailing window (inWindow)
    sp,           \* one splitSpriteSheet call: its arguments, loop position,
                  \* the paths collected and the cell files on disk
    kb,           \* one kebabCase computation: the string and its slugs
    cli,          \* one runCLI call: its arguments, parsed options and outcome
    dl,           \* one downloadImage call: its locals, fetches, waits and outcome
    run,          \* the generation of one batch by processBatch: its options
                  \* and the start times of its requests to the service; in
                  \* SpecLive the pending timers and the calls still to come
    files,        \* the batch sheet files on disk (by batch number)
    gen           \* one generateImages call: options, cells, batches and result

limVars == <<now, rlMax, rlWindow, timestamps, admits>>

vars == <<limVars, caller, slots, ct, poll, sp, kb, cli, dl, run, ex, files, gen>>

\* what the actions of each component leave alone
notRL == <<ct, poll, sp, kb, cli, dl, run, ex, files, gen>>
notCT == <<limVars, caller, slots, poll, sp, kb, cli, dl, run, ex, files, gen>>
notPoll == <<limVars, caller, slots, ct, sp, kb, cli, dl, run, ex, files, gen>>
notExec == <<now, rlMax, rlWindow, caller, slots, ct, poll, sp, kb, cli, dl, run>>
notSplit == <<limVars, caller, slots, ct, poll, kb, cli, dl, run, ex, files, gen>>
notKebab == <<limVars, caller, slots, ct, poll, sp, cli, dl, run, ex, files, gen>>
notCli == <<limVars, caller, slots, ct, poll, sp, kb, dl, run, ex, files, gen>>
notDownload == <<limVars, caller, slots, ct, poll, sp, kb, cli, run, ex, files, gen>>
notTraffic == <<rlMax, rlWindow, admits, caller, slots, sp, kb, cli, dl, ex, files, gen>>

(***************************************************************************)

(* Bounds of the model.                                                    *)
(***************************************************************************)
MaxTime == 60       \* the clock stops advancing here
TickMs == 5         \* granularity of the clock
WindowMs == 20      \* windowMs of the limiter under test
MaxReq == 2         \* largest maxRequests of the limiter under test
NumCallers == 2     \* concurrent callers of acquire()

\* the "+10ms buffer" added to every wait
BufferMs == 10

Callers == 1..NumCallers

\* a caller that is not inside acquire(); of its last call, oldest is the
\* oldest admission in the window when the call found the window full and
\* admittedAt the time the call returned after waiting (-1: none)
IdleCaller == [pc |-> "idle", wakeAt |-> 0, oldest |-> -1, admittedAt |-> -1]

\* availableSlots() was never called
NoSlots == [value |-> -1, inWindow |-> -1]

\* a createTask / pollTaskStatus call that was never made
CtIdle == [pc |-> "idle"]
PollIdle == [pc |-> "idle"]
ExIdle == [mainpc |-> "idle"]
GenIdle == [pc |-> "idle"]
SpIdle == [pc |-> "idle"]
KbIdle == [pc |-> "idle"]
CliIdle == [pc |-> "idle"]
DlIdle == [pc |-> "idle"]
RunIdle == [pc |-> "idle"]

(***************************************************************************)
(* Sequence helpers.                                                       *)
(***************************************************************************)
RECURSIVE FilterSeq(_, _, _)
\* Array.prototype.filter with the predicate "t - ts < w"
FilterSeq(s, t, w) ==
    IF s = <<>> THEN <<>>
    ELSE IF t - Head(s) < w
         THEN <<Head(s)>> \o FilterSeq(Tail(s), t, w)
         ELSE FilterSeq(Tail(s), t, w)

(***************************************************************************)
(* RateLimiter (src/src/types.ts:72-118).                                  *)
(***************************************************************************)
\* faulty variant: no timestamp is ever forgotten
PrunedNever(ts, t, w) == ts

\* faulty variant: a timestamp is forgotten after half a window
PrunedHalfWindow(ts, t, w) == FilterSeq(ts, t, w \div 2)

\* types.ts:91  this.timestamps.filter(ts => now - ts < this.windowMs)
Pruned(ts, t, w) == FilterSeq(ts, t, w)

\* faulty variant: off by one in the capacity test
LimitReachedOffByOne(ts, max) == Len(ts) > max

\* types.ts:93  if (this.timestamps.length >= this.maxRequests)
LimitReached(ts, max) == Len(ts) >= max

\* types.ts:95-96  windowMs - (now - oldestTimestamp) + 10
WaitTime(ts, t, w) == w - (t - ts[1]) + BufferMs

\* One synchronous pass through acquire() at time t on the timestamps ts:
\* the result is the new timestamps, whether a timestamp was recorded and,
\* if not, the delay of the timer that re-enters acquire().
AcquireTry(ts, t, max, w) ==
    LET kept == Pruned(ts, t, w) IN
    IF LimitReached(kept, max)
    THEN [ts |-> kept, admitted |-> FALSE, wait |-> WaitTime(kept, t, w)]
    ELSE [ts |-> Append(kept, t), admitted |-> TRUE, wait |-> 0]

\* faulty variant: the expired timestamps are counted too
AvailableSlotsUnpruned(ts, t, max, w) ==
    IF max - Len(ts) > 0 THEN max - Len(ts) ELSE 0

\* types.ts:113-117  availableSlots()
AvailableSlots(ts, t, max, w) ==
    LET kept == Pruned(ts, t, w) IN
    IF max - Len(kept) > 0 THEN max - Len(kept) ELSE 0

\* history kept by the model: the admissions inside the trailing window at t
InWindow(hist, t, w) == FilterSeq(hist, t, w)

\* the executor and generateImages in the specifications that do not use them
ExecUnused == ex = ExIdle /\ files = {} /\ gen = GenIdle

InitRL ==
    /\ sp = SpIdle
    /\ kb = KbIdle
    /\ cli = CliIdle
    /\ dl = DlIdle
    /\ run = RunIdle
    /\ now = 0
    /\ rlMax \in 1..MaxReq
    /\ rlWindow = WindowMs
    /\ timestamps = <<>>
    /\ admits = <<>>
    /\ caller = [c \in Callers |-> IdleCaller]
    /\ slots = NoSlots
    /\ ct = CtIdle
    /\ poll = PollIdle
    /\ ExecUnused

\* the limiter and its callers in the specifications that do not use them
LimiterUnused ==
    /\ now = 0 /\ rlMax = 1 /\ rlWindow = WindowMs
    /\ timestamps = <<>> /\ admits = <<>>
    /\ caller = [c \in Callers |-> IdleCaller]
    /\ slots = NoSlots

\* the body of acquire() run by caller c (on the call, or when its timer fires)
AcquireBody(c) ==
    LET r == AcquireTry(timestamps, now, rlMax, rlWindow)
        fresh == caller[c].pc = "idle"
    IN
    /\ timestamps' = r.ts
    /\ IF r.admitted
       THEN /\ admits' = Append(admits, now)
            /\ caller' = [caller EXCEPT ![c] =
                   IF fresh THEN IdleCaller
                   ELSE [pc |-> "idle", wakeAt |-> 0, oldest |-> @.oldest,
                         admittedAt |-> now]]
       ELSE /\ admits' = admits
            /\ caller' = [caller EXCEPT ![c] =
                   [pc |-> "waiting", wakeAt |-> now + r.wait,
                    oldest |-> IF fresh THEN r.ts[1] ELSE @.oldest,
                    admittedAt |-> -1]]
    /\ UNCHANGED <<now, rlMax, rlWindow, slots, notRL>>

\* a caller calls acquire()
Acquire(c) ==
    /\ caller[c].pc = "idle"
    /\ AcquireBody(c)

\* the setTimeout of a waiting caller fires and acquire() is re-entered
Wake(c) ==
    /\ caller[c].pc = "waiting"
    /\ now >= caller[c].wakeAt
    /\ AcquireBody(c)

\* availableSlots() is called
CallAvailableSlots ==
    /\ timestamps' = Pruned(timestamps, now, rlWindow)
    /\ slots' = [value |-> AvailableSlots(timestamps, now, rlMax, rlWindow),
                 inWindow |-> Len(InWindow(admits, now, rlWindow))]
    /\ UNCHANGED <<now, rlMax, rlWindow, admits, caller, notRL>>

\* the clock advances
Tick ==
    /\ now + TickMs <= MaxTime
    /\ now' = now + TickMs
    /\ admits' = InWindow(admits, now + TickMs, rlWindow)
    /\ UNCHANGED <<rlMax, rlWindow, timestamps, caller, slots, notRL>>

NextRL ==
    \/ \E c \in Callers : Acquire(c)
    \/ \E c \in Callers : Wake(c)
    \/ CallAvailableSlots
    \/ Tick

SpecRL == InitRL /\ [][NextRL]_vars

\* C1: at every moment the number of admissions recorded within the trailing
\* windowMs is at most maxRequests, whatever the interleaving of the callers'
\* calls, waits and wake-ups.
C1_WindowNeverExceeded == Len(InWindow(admits, now, rlWindow)) <= rlMax

\* C1 witness: the window is full and a caller is waiting for a slot
C1_Witness ==
    /\ Len(InWindow(admits, now, rlWindow)) = rlMax
    /\ \E c \in Callers : caller[c].pc = "waiting"
    /\ now > 0

\* the trailing window holds maxRequests admissions
WindowFull == Len(InWindow(admits, now, rlWindow)) >= rlMax

\* the step is the admission of an acquire()
Admission == admits' = Append(admits, now)

\* C16: an acquire() issued while fewer than maxRequests admissions lie in the
\* trailing window (so each of the first maxRequests calls on a fresh limiter)
\* returns without waiting; one issued while maxRequests admissions lie in it
\* is not admitted at once, and it does not return before the oldest of those
\* admissions is at least windowMs old.
C16_WaitsForOldest ==
    [][\A c \in Callers :
          /\ (caller[c].pc = "idle" /\ caller'[c].pc = "waiting")
                => /\ WindowFull
                   /\ caller'[c].oldest = InWindow(admits, now, rlWindow)[1]
          /\ (caller[c].pc = "idle" /\ Admission) => ~WindowFull
          /\ (caller[c].pc = "waiting" /\ caller'[c].pc = "idle")
                => /\ Admission
                   /\ now - caller[c].oldest >= rlWindow
          /\ (Len(admits) < rlMax /\ now = 0) => caller'[c].pc = "idle"
      ]_vars

\* C16 witness: a caller that found the window full has returned, a window
\* after the oldest admission it found
C16_Witness ==
    \E c \in Callers :
        /\ caller[c].pc = "idle" /\ caller[c].oldest >= 0
        /\ caller[c].admittedAt >= caller[c].oldest + rlWindow
        /\ rlMax = MaxReq

\* C17: availableSlots() returns maxRequests minus the number of admissions
\* inside the trailing windowMs, a value in 0..maxRequests (maxRequests when
\* there is none, one less for each admission in the window); the call makes
\* nobody wait, takes no time and records no admission.
C17_AvailableSlots ==
    [][/\ slots' # slots
            => /\ admits' = admits /\ caller' = caller /\ now' = now
               /\ slots'.inWindow = Len(InWindow(admits, now, rlWindow))
       /\ slots'.value # -1
            => /\ slots'.value = rlMax - slots'.inWindow
               /\ slots'.value \in 0..rlMax
      ]_vars

\* C17 witness: with maxRequests = 2 the call reported one free slot while one
\* admission had left the window and another was still inside it
C17_Witness ==
    /\ rlMax = 2 /\ slots = [value |-> 1, inWindow |-> 1]
    /\ now >= rlWindow /\ Len(timestamps) = 1

(***************************************************************************)
(* createTask (src/unnamed/part_004:122-204).                              *)
(*                                                                         *)
(* A response is what one fetch() produces: status 0 stands for a fetch    *)
(* that rejects (a transport error), any other status for a response that  *)
(* was received whole. retryAfter is the Retry-After header in seconds     *)
(* (0: no header); code and taskId are the fields of the JSON body.        *)
(***************************************************************************)
TaskIds == {"t1", "t2"}

Resp(status, retryAfter, code, taskId) ==
    [status |-> status, retryAfter |-> retryAfter, code |-> code, taskId |-> taskId]

CreateResponses ==
    {Resp(0, 0, 0, "")}
    \cup {Resp(429, ra, 0, "") : ra \in {0, 1}}
    \cup {Resp(st, 0, 0, "") : st \in {304, 400, 500, 503}}
    \cup {Resp(200, 0, 0, id) : id \in TaskIds}
    \cup {Resp(200, 0, 200, "t1"), Resp(201, 0, 0, "t1")}
    \cup {Resp(200, 0, code, "") : code \in {400, 429, 500}}

\* Response.ok
Ok(status) == status >= 200 /\ status <= 299

\* the class of a response, as the claims speak of it
RespClass(r) ==
    IF r.status = 0 THEN "transport"
    ELSE IF r.status = 429 THEN "http429"
    ELSE IF r.status >= 500 THEN "http5xx"
    ELSE IF ~Ok(r.status) THEN "httpOther"
    ELSE IF r.code = 0 \/ r.code = 200 THEN "success"
    ELSE IF r.code = 429 THEN "app429"
    ELSE "appOther"

RECURSIVE Pow2(_)
Pow2(n) == IF n <= 0 THEN 1 ELSE 2 * Pow2(n - 1)

\* part_004:108-116  getBackoffDelay, without its jitter (which adds a random
\* share below 10% to the delay and decides nothing else)
BackoffBaseMs == 1000
BackoffMaxMs == 30000
GetBackoffDelay(attempt) ==
    IF BackoffBaseMs * Pow2(attempt) < BackoffMaxMs
    THEN BackoffBaseMs * Pow2(attempt)
    ELSE BackoffMaxMs

NoError == [type |-> "none"]

\* part_004:166-171 and 177-182  new KieApiError(message, statusCode, code, retryable)
KieApiError(statusCode, code, retryable, req) ==
    [type |-> "KieApiError", statusCode |-> statusCode, code |-> code,
     retryable |-> retryable, req |-> req]

\* what a rejected fetch() throws
TransportError(req) == [type |-> "TransportError", req |-> req]

\* part_004:203  new Error('Failed to create task after all retries')
ExhaustedError == [type |-> "Error", msg |-> "Failed to create task after all retries"]

\* faulty variant: the loop runs one iteration fewer
CtLoopContinuesShort(attempt, maxRetries) == attempt < maxRetries

\* part_004:131  for (...; attempt <= maxRetries; ...)
CtLoopContinues(attempt, maxRetries) == attempt <= maxRetries

\* faulty variant: "continue" repeats the iteration without counting it
CtAfterContinueNotCounted(attempt) == attempt

\* part_004:153,161  "continue" goes to the loop's increment: attempt++
CtAfterContinue(attempt) == attempt + 1

\* faulty variant: every KieApiError is retried
CtRethrowsNever(err) == FALSE

\* part_004:191  if (error instanceof KieApiError && !error.retryable) throw error
CtRethrows(err) == err.type = "KieApiError" /\ ~err.retryable

\* part_004:131-136 and 203: the head of the loop, reached on the call and
\* after every wait: the next request is sent, or the loop is left and
\* lastError (or the fallback error) is thrown.
CtLoopHead(c) ==
    IF CtLoopContinues(c.attempt, c.maxRetries)
    THEN [c EXCEPT !.pc = "fetching", !.requests = @ + 1]
    ELSE [c EXCEPT !.pc = "threw",
                   !.thrown = IF c.lastError = NoError THEN ExhaustedError
                              ELSE c.lastError]

\* part_004:187-200: the catch block
CtCatch(c, err) ==
    LET c1 == [c EXCEPT !.lastError = err] IN
    IF CtRethrows(err)
    THEN [c1 EXCEPT !.pc = "threw", !.thrown = err]
    ELSE IF c.attempt < c.maxRetries
         THEN [c1 EXCEPT !.pc = "delaying",
                         !.waits = Append(@, GetBackoffDelay(c.attempt)),
                         !.next = c.attempt + 1]
         ELSE CtLoopHead([c1 EXCEPT !.attempt = @ + 1])

\* part_004:136-186: one response is handled
CtHandle(c, r) ==
    IF r.status = 0 THEN CtCatch(c, TransportError(c.requests))
    ELSE IF r.status = 429
    THEN [c EXCEPT !.pc = "delaying",
                   !.waits = Append(@, IF r.retryAfter # 0 THEN r.retryAfter * 1000
                                       ELSE GetBackoffDelay(c.attempt)),
                   !.next = CtAfterContinue(c.attempt)]
    ELSE IF r.status >= 500
    THEN [c EXCEPT !.pc = "delaying",
                   !.waits = Append(@, GetBackoffDelay(c.attempt)),
                   !.next = CtAfterContinue(c.attempt)]
    ELSE IF ~Ok(r.status)
    THEN CtCatch(c, KieApiError(r.status, -1, FALSE, c.requests))
    ELSE IF r.code # 0 /\ r.code # 200
    THEN CtCatch(c, KieApiError(r.status, r.code, r.code = 429, c.requests))
    ELSE [c EXCEPT !.pc = "returned", !.result = r.taskId]

MaxRetriesBound == 2   \* largest maxRetries tried

\* createTask(payload, apiKey, maxRetries) has just been called
InitCT ==
    /\ sp = SpIdle
    /\ kb = KbIdle
    /\ cli = CliIdle
    /\ dl = DlIdle
    /\ run = RunIdle
    /\ LimiterUnused
    /\ ExecUnused
    /\ poll = PollIdle
    /\ \E m \in 0..MaxRetriesBound :
         ct = CtLoopHead([pc |-> "called", maxRetries |-> m, attempt |-> 0, next |-> 0,
                          requests |-> 0, waits |-> <<>>, hist |-> <<>>,
                          lastError |-> NoError, thrown |-> NoError, result |-> ""])

\* the fetch of the request in flight settles with r
CtResponse(r) ==
    /\ ct.pc = "fetching"
    /\ ct' = CtHandle([ct EXCEPT !.hist = Append(@, r)], r)
    /\ UNCHANGED notCT

\* the delay() before the next attempt is over
CtDelayDone ==
    /\ ct.pc = "delaying"
    /\ ct' = CtLoopHead([ct EXCEPT !.attempt = ct.next])
    /\ UNCHANGED notCT

NextCT ==
    \/ \E r \in CreateResponses : CtResponse(r)
    \/ CtDelayDone

SpecCT == InitCT /\ [][NextCT]_vars

CtDone == ct.pc \in {"returned", "threw"}

RECURSIVE CountIn(_, _)
\* the number of entries of the sequence s that lie in the set S
CountIn(s, S) ==
    IF s = <<>> THEN 0
    ELSE (IF Head(s) \in S THEN 1 ELSE 0) + CountIn(Tail(s), S)

\* the classes of the responses received so far, in order
CtClasses == [i \in 1..Len(ct.hist) |-> RespClass(ct.hist[i])]

AllIn(s, S) == \A i \in 1..Len(s) : s[i] \in S

\* C6 (as stated): 429 and 5xx responses consume no retry attempt, so however
\* many of them arrive createTask keeps retrying and does not raise.
C6_Original ==
    AllIn(CtClasses, {"http429", "http5xx"}) => ct.pc # "threw"

\* C6 (amended): a 429 or 5xx response is followed by a wait and a retry, but it
\* uses up one of the maxRetries+1 iterations of the loop like any failed
\* attempt: createTask never sends more than maxRetries+1 requests, and when
\* maxRetries+1 responses in a row are 429/5xx it waits after each and then
\* raises 'Failed to create task after all retries'.
C6_RetryCounted ==
    /\ ct.requests <= ct.maxRetries + 1
    /\ CountIn(CtClasses, {"http429", "http5xx"}) <= Len(ct.waits)
    /\ (AllIn(CtClasses, {"http429", "http5xx"}) /\ CtDone)
          => /\ ct.pc = "threw"
             /\ ct.thrown = ExhaustedError
             /\ ct.requests = ct.maxRetries + 1
             /\ Len(ct.waits) = ct.maxRetries + 1

\* C6 witness: with maxRetries >= 1, only 429/5xx responses arrived and the call
\* has raised
C6_Witness ==
    /\ ct.pc = "threw" /\ ct.maxRetries >= 1
    /\ AllIn(CtClasses, {"http429", "http5xx"})
    /\ "http429" \in {CtClasses[i] : i \in 1..Len(ct.hist)}
    /\ "http5xx" \in {CtClasses[i] : i \in 1..Len(ct.hist)}

\* the service answers the first request with HTTP 429 and the second, if it
\* is sent, with a successful response
Script429ThenSuccess ==
    /\ Len(ct.hist) >= 1 /\ CtClasses[1] = "http429"
    /\ Len(ct.hist) >= 2 => CtClasses[2] = "success"

\* C7 (as stated): 429 then success makes exactly 2 requests and returns the
\* task id of the second response, for every maxRetries >= 0.
C7_Original ==
    (Script429ThenSuccess /\ CtDone)
        => /\ ct.pc = "returned"
           /\ ct.requests = 2
           /\ ct.result = ct.hist[2].taskId

\* C7 (amended): 429 then success makes exactly 2 requests and returns the
\* task id of the second response for every maxRetries >= 1; with
\* maxRetries = 0 the 429 uses up the only attempt: 1 request, one wait, and
\* 'Failed to create task after all retries' is raised.
C7_TwoRequestsWhenBudget ==
    (Script429ThenSuccess /\ CtDone)
        => IF ct.maxRetries >= 1
           THEN /\ ct.pc = "returned"
                /\ ct.requests = 2
                /\ Len(ct.waits) = 1
                /\ ct.result = ct.hist[2].taskId
           ELSE /\ ct.pc = "threw"
                /\ ct.requests = 1
                /\ Len(ct.waits) = 1
                /\ ct.thrown = ExhaustedError

\* C7 witness: a call with a retry budget returned the second response's id
C7_Witness ==
    /\ Script429ThenSuccess /\ ct.pc = "returned"
    /\ ct.requests = 2 /\ ct.result = "t2" /\ ct.maxRetries >= 1

\* C8: a non-2xx status other than 429 and 5xx, or a 2xx response whose
\* application code is none of 0, 200 and 429, makes createTask raise a
\* non-retryable KieApiError at once: it is the last response of the call,
\* no wait and no request follows it, whatever maxRetries is.
C8_NonRetryableFailsAtOnce ==
    \A i \in 1..Len(ct.hist) :
        CtClasses[i] \in {"httpOther", "appOther"}
            => /\ i = Len(ct.hist)
               /\ ct.requests = i
               /\ ct.pc = "threw"
               /\ ct.thrown.type = "KieApiError"
               /\ ~ct.thrown.retryable
               /\ ct.thrown.statusCode = ct.hist[i].status
               /\ ct.thrown.req = i
               /\ (i = 1 => ct.waits = <<>>)

\* C8 witness: the first response of a call with a retry budget was such a
\* response and the call has raised
C8_Witness ==
    /\ Len(ct.hist) = 1 /\ ct.maxRetries >= 1 /\ ct.pc = "threw"
    /\ CtClasses[1] = "appOther"

\* C9: when every request fails with a transport error or with the retryable
\* application code 429, createTask makes exactly maxRetries+1 requests, waits
\* a backoff (1000 * 2^attempt ms) between consecutive ones and none after the
\* last, and then raises the error of the last request.
C9_RetriesExhausted ==
    AllIn(CtClasses, {"transport", "app429"})
        => /\ ct.pc # "returned"
           /\ ct.pc = "fetching" => Len(ct.waits) = ct.requests - 1
           /\ ct.pc = "delaying" => Len(ct.waits) = ct.requests
           /\ \A i \in 1..Len(ct.waits) : ct.waits[i] = GetBackoffDelay(i - 1)
           /\ ct.pc = "threw"
                => /\ ct.requests = ct.maxRetries + 1
                   /\ Len(ct.waits) = ct.maxRetries
                   /\ ct.thrown.req = ct.requests
                   /\ ct.thrown.type =
                        (IF CtClasses[ct.requests] = "transport"
                         THEN "TransportError" ELSE "KieApiError")

\* C9 witness: a call with maxRetries = 2 raised after three failed requests of
\* both kinds
C9_Witness ==
    /\ ct.pc = "threw" /\ ct.maxRetries = 2 /\ ct.requests = 3
    /\ AllIn(CtClasses, {"transport", "app429"})
    /\ CtClasses[1] = "app429" /\ CtClasses[3] = "transport"

(***************************************************************************)
(* pollTaskStatus (src/unnamed/part_004:210-293).                          *)
(*                                                                         *)
(* A status response: status 0 is a fetch that rejects (it throws inside   *)
(* the try block before the error counter is reset); otherwise state,      *)
(* resultJson, failCode and failMsg are result.data's.                     *)
(***************************************************************************)
\* the resultJson strings the service is tried with
ResultJsons ==
    {"{\"resultUrls\":[\"u1\"]}", "{\"resultUrls\":[\"u1\",\"u2\"]}",
     "{\"resultUrls\":[]}", "{}", "not json"}

\* JSON.parse(resultJson): the parsed value, or thrown for a SyntaxError
JsonParse(j) ==
    CASE j = "{\"resultUrls\":[\"u1\"]}" ->
            [thrown |-> FALSE, hasUrls |-> TRUE, resultUrls |-> <<"u1">>]
      [] j = "{\"resultUrls\":[\"u1\",\"u2\"]}" ->
            [thrown |-> FALSE, hasUrls |-> TRUE, resultUrls |-> <<"u1", "u2">>]
      [] j = "{\"resultUrls\":[]}" ->
            [thrown |-> FALSE, hasUrls |-> TRUE, resultUrls |-> <<>>]
      [] j = "{}" ->
            [thrown |-> FALSE, hasUrls |-> FALSE, resultUrls |-> <<>>]
      [] OTHER ->
            [thrown |-> TRUE, hasUrls |-> FALSE, resultUrls |-> <<>>]

StatusResp(status, retryAfter, state, resultJson, failCode, failMsg) ==
    [status |-> status, retryAfter |-> retryAfter, state |-> state,
     resultJson |-> resultJson, failCode |-> failCode, failMsg |-> failMsg]

PendingStates == {"waiting", "queuing", "generating"}

\* the class of a 2xx response that carries a non-terminal state
PendingClass == {"pending"}

StatusResponses ==
    {StatusResp(0, 0, "", "", "", "")}
    \cup {StatusResp(429, ra, "", "", "", "") : ra \in {0, 1}}
    \cup {StatusResp(st, 0, "", "", "", "") : st \in {404, 500}}
    \cup {StatusResp(200, 0, st, "", "", "") : st \in PendingStates}
    \cup {StatusResp(200, 0, "success", j, "", "") : j \in ResultJsons}
    \cup {StatusResp(200, 0, "fail", "", fc, "boom") : fc \in {"422", "500"}}

\* the class of a status response, as the claims speak of it
StatusClass(r) ==
    IF r.status = 0 THEN "transport"
    ELSE IF r.status = 429 THEN "http429"
    ELSE IF ~Ok(r.status) THEN "httpError"
    ELSE IF r.state = "success"
    THEN (IF JsonParse(r.resultJson).thrown \/ ~JsonParse(r.resultJson).hasUrls
          THEN "badSuccess" ELSE "success")
    ELSE IF r.state = "fail" THEN "fail"
    ELSE "pending"

\* part_004:218  const maxConsecutiveErrors = 5
MaxConsecutiveErrors == 5

\* part_004:214  interval: number = 5_000
IntervalMs == 5000

TaskFailedError(taskId, failCode, failMsg) ==
    [type |-> "TaskFailedError", taskId |-> taskId, failCode |-> failCode,
     failMsg |-> failMsg]

TaskTimeoutError(taskId, maxAttempts) ==
    [type |-> "TaskTimeoutError", taskId |-> taskId, maxAttempts |-> maxAttempts]

\* part_004:243-246 and 282-284  new KieApiError(message, statusCode?)
PollApiError(statusCode) ==
    [type |-> "KieApiError", statusCode |-> statusCode, retryable |-> FALSE]

\* faulty variant: the loop runs one iteration more
PollLoopContinuesLong(attempt, maxAttempts) == attempt <= maxAttempts

\* part_004:221  for (...; attempt < maxAttempts; ...)
PollLoopContinues(attempt, maxAttempts) == attempt < maxAttempts

\* part_004:221-224 and 292: the head of the loop, reached on the call and
\* after every wait
PollLoopHead(p) ==
    IF PollLoopContinues(p.attempt, p.maxAttempts)
    THEN [p EXCEPT !.pc = "fetching", !.fetches = @ + 1]
    ELSE [p EXCEPT !.pc = "threw",
                   !.thrown = TaskTimeoutError(p.taskId, p.maxAttempts)]

\* faulty variant: the "continue" after a 429 repeats the iteration uncounted
PollNextAttemptSkips429(attempt, cls) ==
    IF cls = "http429" THEN attempt ELSE attempt + 1

\* part_004:221  attempt++, reached at the end of the body and by the
\* "continue" of lines 237 and 250 alike (cls: the class of the response the
\* iteration handled)
PollNextAttempt(attempt, cls) == attempt + 1

\* faulty variant: only a KieApiError is thrown on, a TaskFailedError is counted
PollRethrowsApiOnly(type) == type = "KieApiError"

\* part_004:276  error instanceof TaskFailedError || error instanceof KieApiError
PollRethrows(type) == type \in {"TaskFailedError", "KieApiError"}

\* faulty variant: the wait is half as long
PollDelayHalved(p, ms) ==
    [p EXCEPT !.pc = "delaying", !.waits = Append(@, ms \div 2)]

\* a wait of ms milliseconds, after which the loop's increment runs
PollDelay(p, ms) == [p EXCEPT !.pc = "delaying", !.waits = Append(@, ms)]

\* faulty variant: polling is given up one error late
PollCountErrorLate(p, statusCode) ==
    IF p.consecutiveErrors + 1 > MaxConsecutiveErrors
    THEN [p EXCEPT !.consecutiveErrors = @ + 1, !.pc = "threw",
                   !.thrown = PollApiError(statusCode)]
    ELSE PollDelay([p EXCEPT !.consecutiveErrors = @ + 1], p.interval)

\* part_004:240-251 (statusCode = the response's) and 274-289 (statusCode = -1,
\* none): one more consecutive error
PollCountError(p, statusCode) ==
    IF p.consecutiveErrors + 1 >= MaxConsecutiveErrors
    THEN [p EXCEPT !.consecutiveErrors = @ + 1, !.pc = "threw",
                   !.thrown = PollApiError(statusCode)]
    ELSE PollDelay([p EXCEPT !.consecutiveErrors = @ + 1], p.interval)

\* faulty variant: the result of a success response is not taken from its resultJson
PollResultFirstOnly(r) == <<"u1">>

\* part_004:262-264  the value returned on success
PollResult(r) == JsonParse(r.resultJson).resultUrls

\* part_004:224-273: one status response is handled
PollHandle(p, r) ==
    IF r.status = 0 THEN PollCountError(p, -1)
    ELSE IF r.status = 429
    THEN PollDelay(p, IF r.retryAfter # 0 THEN r.retryAfter * 1000 ELSE p.interval * 2)
    ELSE IF ~Ok(r.status) THEN PollCountError(p, r.status)
    ELSE LET p0 == [p EXCEPT !.consecutiveErrors = 0] IN
         IF r.state = "success"
         THEN IF JsonParse(r.resultJson).thrown \/ ~JsonParse(r.resultJson).hasUrls
              THEN PollCountError(p0, -1)
              ELSE [p0 EXCEPT !.pc = "returned", !.result = PollResult(r)]
         ELSE IF r.state = "fail"
         THEN IF PollRethrows("TaskFailedError")
              THEN [p0 EXCEPT !.pc = "threw",
                       !.thrown = TaskFailedError(p.taskId, r.failCode, r.failMsg)]
              ELSE PollCountError(p0, -1)
         ELSE PollDelay(p0, p.interval)

MaxPollAttempts == 5   \* largest maxAttempts tried

\* pollTaskStatus(taskId, apiKey, maxAttempts, interval) has just been called
InitPoll ==
    /\ sp = SpIdle
    /\ kb = KbIdle
    /\ cli = CliIdle
    /\ dl = DlIdle
    /\ run = RunIdle
    /\ LimiterUnused
    /\ ExecUnused
    /\ ct = CtIdle
    /\ \E m \in 0..MaxPollAttempts, id \in TaskIds :
         poll = PollLoopHead([pc |-> "called", taskId |-> id, maxAttempts |-> m,
                              interval |-> IntervalMs, attempt |-> 0, consecutiveErrors |-> 0,
                              fetches |-> 0, waits |-> <<>>, hist |-> <<>>,
                              last |-> StatusResp(0, 0, "", "", "", ""),
                              thrown |-> NoError, result |-> <<>>])

\* the fetch of the status request in flight settles with r
PollResponse(r) ==
    /\ poll.pc = "fetching"
    /\ poll' = PollHandle([poll EXCEPT !.hist = Append(@, StatusClass(r)),
                                       !.last = r], r)
    /\ UNCHANGED notPoll

\* the delay() is over: the loop's attempt++ runs and the head is reached
PollDelayDone ==
    /\ poll.pc = "delaying"
    /\ poll' = PollLoopHead([poll EXCEPT
                 !.attempt = PollNextAttempt(@, poll.hist[Len(poll.hist)])])
    /\ UNCHANGED notPoll

NextPoll ==
    \/ \E r \in StatusResponses : PollResponse(r)
    \/ PollDelayDone

SpecPoll == InitPoll /\ [][NextPoll]_vars

\* the responses so far are k-1 non-terminal states followed by one success
PendingThenSuccess ==
    /\ Len(poll.hist) >= 1
    /\ poll.hist[Len(poll.hist)] = "success"
    /\ \A i \in 1..(Len(poll.hist) - 1) : poll.hist[i] = "pending"

\* C10: after k-1 non-terminal states and then success, with k <= maxAttempts,
\* pollTaskStatus has made exactly k status fetches and returns the resultUrls
\* parsed from the success response's resultJson.
C10_PollsUntilSuccess ==
    PendingThenSuccess
        => /\ poll.pc = "returned"
           /\ poll.fetches = Len(poll.hist)
           /\ poll.fetches <= poll.maxAttempts
           /\ poll.result = JsonParse(poll.last.resultJson).resultUrls
           /\ Len(poll.waits) = poll.fetches - 1

\* C10 witness: generating, generating, success returned two URLs after 3 polls
C10_Witness ==
    /\ PendingThenSuccess /\ poll.pc = "returned"
    /\ poll.fetches = 3 /\ poll.result = <<"u1", "u2">>

\* every status response so far carried a non-terminal state
AllPending == AllIn(poll.hist, PendingClass)

PollThrew(type) == poll.pc = "threw" /\ poll.thrown.type = type

\* C11: when no status fetch returns a terminal state, pollTaskStatus raises
\* TaskTimeoutError carrying the task id and maxAttempts after exactly
\* maxAttempts status fetches (never more), and once it has raised no further
\* request is made; a timeout is never raised after any other number of fetches.
C11_TimeoutAfterMaxAttempts ==
    /\ PollThrew("TaskTimeoutError")
          => /\ poll.thrown = TaskTimeoutError(poll.taskId, poll.maxAttempts)
             /\ poll.fetches = poll.maxAttempts
             /\ Len(poll.hist) = poll.maxAttempts
    /\ AllPending
          => /\ poll.fetches <= poll.maxAttempts
             /\ poll.pc # "returned"
             /\ poll.pc = "threw" => PollThrew("TaskTimeoutError")
             /\ Len(poll.hist) = poll.maxAttempts => poll.pc \in {"delaying", "threw"}
             /\ poll.pc # "threw" => ENABLED NextPoll
    /\ poll.pc = "threw" => ~ENABLED NextPoll

\* C11 witness: three polls saw a non-terminal state and the call timed out
C11_Witness ==
    /\ PollThrew("TaskTimeoutError") /\ AllPending
    /\ poll.maxAttempts = 3 /\ poll.fetches = 3

\* the last status response was the first one whose state is fail
FirstFail ==
    /\ Len(poll.hist) >= 1
    /\ poll.hist[Len(poll.hist)] = "fail"
    /\ \A i \in 1..(Len(poll.hist) - 1) : poll.hist[i] # "fail"

\* C12: on the first status response whose state is fail pollTaskStatus raises
\* TaskFailedError with the task id and the response's failCode and failMsg;
\* the failure is not counted as a consecutive error and no other status fetch
\* follows.
C12_FailRaisesAtOnce ==
    /\ FirstFail
          => /\ poll.pc = "threw"
             /\ poll.thrown = TaskFailedError(poll.taskId, poll.last.failCode,
                                              poll.last.failMsg)
             /\ poll.fetches = Len(poll.hist)
             /\ poll.consecutiveErrors = 0
             /\ ~ENABLED NextPoll
    /\ PollThrew("TaskFailedError") => FirstFail

\* C12 witness: a fail state with code 422 on the third poll, after an HTTP error
C12_Witness ==
    /\ FirstFail /\ PollThrew("TaskFailedError")
    /\ poll.thrown.failCode = "422" /\ poll.thrown.failMsg = "boom"
    /\ Len(poll.hist) = 3 /\ poll.hist[2] = "httpError"

\* the status fetches so far that were not answered with HTTP 429
Non429Fetches == Len(poll.hist) - CountIn(poll.hist, {"http429"})

\* C13 (as stated): a 429 consumes no poll attempt, so a call that times out
\* has made maxAttempts status fetches that were not answered with 429.
C13_Original ==
    PollThrew("TaskTimeoutError") => Non429Fetches = poll.maxAttempts

\* C13 (amended): a 429 during polling is waited out (the Retry-After hint,
\* else 2 x interval) and polling continues, but the response consumes a poll
\* attempt like any other: the attempt counter equals the number of responses
\* received, 429 included, so a call that times out has made maxAttempts minus
\* the number of 429 responses fetches that were not answered with 429.
C13_Http429CountsAsAttempt ==
    /\ poll.pc = "fetching" => poll.attempt = Len(poll.hist)
    /\ poll.pc \in {"fetching", "delaying"} => poll.attempt < poll.maxAttempts
    /\ PollThrew("TaskTimeoutError")
          => Non429Fetches = poll.maxAttempts - CountIn(poll.hist, {"http429"})
    /\ (Len(poll.hist) >= 1 /\ poll.hist[Len(poll.hist)] = "http429")
          => /\ poll.pc # "returned"
             /\ poll.pc = "threw" => PollThrew("TaskTimeoutError")
             /\ Len(poll.waits) = Len(poll.hist)
             /\ poll.waits[Len(poll.waits)] =
                   (IF poll.last.retryAfter # 0 THEN poll.last.retryAfter * 1000
                    ELSE 2 * IntervalMs)

\* C13 witness: with maxAttempts = 2 a 429 and one pending state timed out
C13_Witness ==
    /\ PollThrew("TaskTimeoutError") /\ poll.maxAttempts = 2
    /\ poll.hist = <<"http429", "pending">>
    /\ poll.waits = <<2 * IntervalMs, IntervalMs>>

RECURSIVE ErrorRun(_, _)
\* the consecutive-error count after the first n responses: a rejected fetch or
\* a non-2xx response other than 429 adds one, a 429 leaves it, a 2xx response
\* resets it, and a 2xx success response that cannot be used resets it and
\* is then counted itself
ErrorRun(h, n) ==
    IF n = 0 THEN 0
    ELSE IF h[n] \in {"transport", "httpError"} THEN ErrorRun(h, n - 1) + 1
    ELSE IF h[n] = "http429" THEN ErrorRun(h, n - 1)
    ELSE IF h[n] = "badSuccess" THEN 1
    ELSE 0

RECURSIVE ClaimedRun(_, _)
\* the poll errors (non-2xx responses, transport errors) among the first n
\* responses with no 2xx response after the first of them
ClaimedRun(h, n) ==
    IF n = 0 THEN 0
    ELSE IF h[n] \in {"transport", "httpError"} THEN ClaimedRun(h, n - 1) + 1
    ELSE IF h[n] = "http429" THEN ClaimedRun(h, n - 1)
    ELSE 0

\* C14 (as stated): polling fails with a KieApiError exactly when 5 poll errors
\* (non-2xx responses or transport errors) came with no 2xx poll between them.
C14_Original ==
    PollThrew("KieApiError")
        <=> ClaimedRun(poll.hist, Len(poll.hist)) >= MaxConsecutiveErrors

\* C14 (amended): polling fails with a KieApiError exactly when the
\* consecutive-error count reaches 5. A transport error or a non-2xx response
\* other than 429 adds one to it, a 429 leaves it, every 2xx response resets
\* it to zero, and a 2xx success response whose resultJson cannot be used is
\* counted after the reset (the count is then 1). So 5 errors with no 2xx
\* response between them abort polling, fewer never do, and so do an unusable
\* success response and the 4 errors after it.
C14_ConsecutiveErrors ==
    /\ poll.consecutiveErrors = ErrorRun(poll.hist, Len(poll.hist))
    /\ poll.consecutiveErrors <= MaxConsecutiveErrors
    /\ PollThrew("KieApiError") <=> poll.consecutiveErrors >= MaxConsecutiveErrors
    /\ PollThrew("KieApiError") => poll.fetches = Len(poll.hist)

\* C14 witness: five errors in a row, transport and HTTP errors mixed, ended
\* the polling
C14_Witness ==
    /\ PollThrew("KieApiError") /\ poll.consecutiveErrors = 5
    /\ poll.hist[1] = "transport" /\ poll.hist[5] = "httpError"
    /\ AllIn(poll.hist, {"transport", "httpError"})

(***************************************************************************)
(* executeWithRateLimit (src/src/types.ts:126-168).                        *)
(*                                                                         *)
(* A handler works on the record w: the limiter's timestamps (ts), the     *)
(* admission history (adm), the sheet files (files) and the executor (x).  *)
(* Tasks are numbered from 1: task k is tasks[k-1].                        *)
(***************************************************************************)
Work == [ts |-> timestamps, adm |-> admits, files |-> files, x |-> ex]

Commit(w) ==
    /\ timestamps' = w.ts
    /\ admits' = w.adm
    /\ files' = w.files
    /\ ex' = w.x

\* results[taskIndex] before the task settles (Array.from({length}))
EmptySlot == [status |-> "empty"]

\* types.ts:131-133: the locals of a call with n tasks
NewEx(n, conc) ==
    [concurrency |-> conc, numTasks |-> n, index |-> 0, executing |-> <<>>,
     results |-> [k \in 1..n |-> EmptySlot],
     task |-> [k \in 1..n |-> [st |-> "new", wakeAt |-> 0, fault |-> "none",
                               created |-> 0, resplit |-> "none", url |-> "none",
                               polled |-> "none"]],
     started |-> <<>>, finished |-> <<>>,
     mainpc |-> "called"]

RECURSIVE Without(_, _)
\* executing.splice(executing.indexOf(promise), 1)
Without(s, k) ==
    IF s = <<>> THEN <<>>
    ELSE IF Head(s) = k THEN Tail(s)
    ELSE <<Head(s)>> \o Without(Tail(s), k)

\* types.ts:136  await rateLimiter.acquire() in runTask: the synchronous pass
\* through acquire() either records a timestamp (the continuation of runTask is
\* queued) or arms the timer that re-enters acquire()
RunTaskAcquire(w, k) ==
    LET r == AcquireTry(w.ts, now, rlMax, rlWindow) IN
    IF r.admitted
    THEN [w EXCEPT !.ts = r.ts, !.adm = Append(@, now), !.x.task[k].st = "admitted"]
    ELSE [w EXCEPT !.ts = r.ts, !.x.task[k].st = "rlWait",
                   !.x.task[k].wakeAt = now + r.wait]

\* faulty variant: one task too many is started
CanLaunchOneMore(len, conc) == len <= conc

\* types.ts:149  executing.length < concurrency
CanLaunch(len, conc) == len < conc

RECURSIVE MainLoop(_)
\* types.ts:147-165: the scheduling loop from the head of the outer while up to
\* its next await
MainLoop(w) ==
    IF w.x.index < w.x.numTasks
    THEN IF CanLaunch(Len(w.x.executing), w.x.concurrency)
         THEN LET k == w.x.index + 1 IN
              MainLoop(RunTaskAcquire(
                  [w EXCEPT !.x.index = k, !.x.executing = Append(@, k)], k))
         ELSE [w EXCEPT !.x.mainpc = "awaitRace"]
    ELSE IF w.x.executing = <<>>
         THEN [w EXCEPT !.x.mainpc = "returned"]
         ELSE [w EXCEPT !.x.mainpc = "awaitAll"]

\* lib.ts:476-500: the batch is generated: processBatch acquires a slot of the
\* limiter itself and, once admitted, submits the task
BatchGenerate(w, k) ==
    LET r == AcquireTry(w.ts, now, rlMax, rlWindow) IN
    IF r.admitted
    THEN [w EXCEPT !.ts = r.ts, !.adm = Append(@, now), !.x.task[k].st = "creating",
                   !.x.task[k].created = @ + 1]
    ELSE [w EXCEPT !.ts = r.ts, !.x.task[k].st = "rlWait2",
                   !.x.task[k].wakeAt = now + r.wait]

\* faulty variant: the sheet on disk is never looked at
ProcessBatchBeginAlways(w, k, g) == BatchGenerate(w, k)

\* lib.ts:436-474: processBatch up to its first await: with existing = 'skip'
\* and the sheet on disk the sheet is loaded and split again
ProcessBatchBegin(w, k, g) ==
    IF g.opts.existing = "skip" /\ k \in w.files
    THEN [w EXCEPT !.x.task[k].st = "resplitting"]
    ELSE BatchGenerate(w, k)

\* types.ts:137-140: the continuation of runTask calls the task function (a
\* batch task of generateImages, or a task of the caller's)
TaskStart(w, k, g) ==
    LET w1 == [w EXCEPT !.x.started = Append(@, k)] IN
    IF g.pc = "idle"
    THEN [w1 EXCEPT !.x.task[k].st = "running"]
    ELSE ProcessBatchBegin(w1, k, g)

RECURSIVE StartAdmittedDown(_, _, _)
\* the admitted tasks start from task k downwards
StartAdmittedDown(w, g, k) ==
    IF k < 1 THEN w
    ELSE IF w.x.task[k].st = "admitted"
         THEN StartAdmittedDown(TaskStart(w, k, g), g, k - 1)
         ELSE StartAdmittedDown(w, g, k - 1)

\* faulty variant: the queued continuations run last queued first
StartAdmittedFromLast(w, g, k) == StartAdmittedDown(w, g, w.x.numTasks)

RECURSIVE StartAdmitted(_, _, _)
\* the queued continuations of runTask run in the order they were queued
StartAdmitted(w, g, k) ==
    IF k > w.x.numTasks THEN w
    ELSE IF w.x.task[k].st = "admitted"
         THEN StartAdmitted(TaskStart(w, k, g), g, k + 1)
         ELSE StartAdmitted(w, g, k + 1)

\* types.ts:141-144 and 151-154, then 160 or 165: task k settled with res; its
\* result is stored, its promise leaves executing, and the loop awaiting
\* Promise.race (or Promise.all) goes on
Settle(w, k, res, g) ==
    LET w1 == [w EXCEPT !.x.results[k] = res, !.x.task[k].st = "done",
                        !.x.finished = Append(@, k),
                        !.x.executing = Without(@, k)] IN
    IF w1.x.mainpc = "awaitRace" THEN StartAdmitted(MainLoop(w1), g, 1)
    ELSE IF w1.x.mainpc = "awaitAll" /\ w1.x.executing = <<>>
         THEN [w1 EXCEPT !.x.mainpc = "returned"]
         ELSE w1

MaxTasks == 3   \* largest number of tasks
MaxConc == 2    \* largest concurrency

\* executeWithRateLimit(tasks, rateLimiter, concurrency) is about to be called
\* with tasks that settle when and how they like
InitExec ==
    /\ sp = SpIdle
    /\ kb = KbIdle
    /\ cli = CliIdle
    /\ dl = DlIdle
    /\ run = RunIdle
    /\ now = 0
    /\ rlMax \in 1..MaxReq
    /\ rlWindow = WindowMs
    /\ timestamps = <<>>
    /\ admits = <<>>
    /\ caller = [c \in Callers |-> IdleCaller]
    /\ slots = NoSlots
    /\ ct = CtIdle
    /\ poll = PollIdle
    /\ files = {}
    /\ gen = GenIdle
    /\ \E n \in 0..MaxTasks, conc \in 0..MaxConc : ex = NewEx(n, conc)

\* the call: the loop runs up to its first await, then the admitted tasks start
ExCall ==
    /\ ex.mainpc = "called"
    /\ Commit(StartAdmitted(MainLoop(Work), gen, 1))
    /\ UNCHANGED <<gen, notExec>>

\* the timer of task k's acquire() fires
ExWake(k) ==
    /\ ex.mainpc \in {"awaitRace", "awaitAll"}
    /\ ex.task[k].st = "rlWait"
    /\ now >= ex.task[k].wakeAt
    /\ Commit(StartAdmitted(RunTaskAcquire(Work, k), gen, 1))
    /\ UNCHANGED <<gen, notExec>>

\* the promise of the running task k settles
ExTaskSettle(k, status) ==
    /\ ex.mainpc \in {"awaitRace", "awaitAll"}
    /\ ex.task[k].st = "running"
    /\ Commit(Settle(Work, k, [status |-> status, value |-> k], gen))
    /\ UNCHANGED <<gen, notExec>>

NextExec ==
    \/ ExCall
    \/ \E k \in 1..ex.numTasks : ExWake(k)
    \/ \E k \in 1..ex.numTasks, status \in {"fulfilled", "rejected"} :
           ExTaskSettle(k, status)
    \/ Tick

SpecExec == InitExec /\ [][NextExec]_vars

\* the tasks whose function was called and whose promise has not settled
Running == {k \in 1..ex.numTasks : ex.task[k].st = "running"}

\* C2: never more than `concurrency` task functions are started and not yet
\* settled, for every task list and every completion order.
C2_ConcurrencyBound ==
    ex.mainpc # "idle" =>
        /\ Cardinality(Running) <= ex.concurrency
        /\ Len(ex.executing) <= ex.concurrency

\* C2 witness: with concurrency 2, two tasks run while a third awaits its turn
C2_Witness ==
    /\ ex.mainpc = "awaitRace"
    /\ ex.concurrency = 2
    /\ Cardinality(Running) = 2
    /\ ex.index < ex.numTasks

\* the settled entry of task k: fulfilled with its value or rejected with its
\* reason
SettledEntries(k) ==
    {[status |-> "fulfilled", value |-> k], [status |-> "rejected", value |-> k]}

\* every task was invoked at most once, and on return exactly once, its
\* settled entry standing at its own index
RunOnceInPlace ==
    /\ \A k \in 1..ex.numTasks : CountIn(ex.started, {k}) <= 1
    /\ ex.mainpc = "returned" =>
          \A k \in 1..ex.numTasks :
             /\ CountIn(ex.started, {k}) = 1
             /\ ex.results[k] \in SettledEntries(k)

\* C18: executeWithRateLimit invokes every task exactly once and returns one
\* settled entry per task at the task's own index, whatever the completion
\* order and whichever tasks reject: no task is invoked twice, on return every
\* task has been invoked and its entry is in place, and while the call has not
\* returned it always has a started task to wait for.
C18_EveryTaskRunsOnce ==
    ex.mainpc # "idle" =>
        /\ RunOnceInPlace
        /\ ex.mainpc \in {"awaitRace", "awaitAll"} => ex.executing # <<>>

(***************************************************************************)
(* splitSpriteSheet (src/src/lib.ts:358-422).                              *)
(*                                                                         *)
(* The sheet is known by its width and height in pixels; a file name is a  *)
(* tuple of its parts (<<"image-", 2>> is `image-2`) and a cell file on    *)
(* disk is its path with the pixel rectangle that was extracted into it.   *)
(* A write to a path that is on disk replaces the file.                    *)
(***************************************************************************)
MaxW == 3        \* widest sheet
MaxH == 2        \* tallest sheet
MaxGrid == 2     \* largest rows and columns
MaxNames == 2    \* longest list of file names

\* the file names a caller supplies
Names == {<<"a">>, <<"b">>, <<"image-", 2>>}

\* OUTPUT_FORMATS
OutputFormats == {"png", "jpg"}

RECURSIVE SeqsUpTo(_, _)
\* the sequences over S of length at most n
SeqsUpTo(S, n) ==
    IF n = 0 THEN {<<>>}
    ELSE LET shorter == SeqsUpTo(S, n - 1) IN
         shorter \cup {Append(q, x) : q \in {t \in shorter : Len(t) = n - 1}, x \in S}

\* lib.ts:378  Math.floor(width / columns)
CellWidth(width, columns) == width \div columns

\* lib.ts:379  Math.floor(height / rows)
CellHeight(height, rows) == height \div rows

\* lib.ts:388  row * columns + col
CellIndex(row, col, columns) == row * columns + col

\* faulty variant: the made-up names count from zero
FilenameFromZero(filenames, cellIndex) ==
    IF cellIndex + 1 <= Len(filenames) THEN filenames[cellIndex + 1]
    ELSE <<"image-", cellIndex>>

\* lib.ts:393  filenames[cellIndex] ?? `image-${cellIndex + 1}`
Filename(filenames, cellIndex) ==
    IF cellIndex + 1 <= Len(filenames) THEN filenames[cellIndex + 1]
    ELSE <<"image-", cellIndex + 1>>

\* lib.ts:394  join(outputPath, `${filename}.${outputFormat}`)
CellOutputPath(filename, format) == <<"images/", filename, ".", format>>

\* faulty variant: the crop starts one cell too far to the right
SplitLeftNextCell(col, cellWidth) == (col + 1) * cellWidth

\* lib.ts:396  const left = col * cellWidth
SplitLeft(col, cellWidth) == col * cellWidth

\* lib.ts:397  const top = row * cellHeight
SplitTop(row, cellHeight) == row * cellHeight

\* lib.ts:400-408  sharp(...).extract({left, top, width, height}).toFile(path):
\* the file at path now holds that rectangle
WriteCell(disk, path, rect) ==
    {f \in disk : f.path # path} \cup {[path |-> path, rect |-> rect]}

\* lib.ts:386-391: the head of the two loops: the next cell to crop, or the
\* return of the collected paths when the rows are done
SplitLoopHead(p) ==
    IF p.row >= p.rows THEN [p EXCEPT !.pc = "returned"]
    ELSE IF p.col >= p.columns
              \/ CellIndex(p.row, p.col, p.columns) >= p.rows * p.columns
         THEN IF p.row + 1 >= p.rows THEN [p EXCEPT !.pc = "returned"]
              ELSE IF p.columns = 0
                   THEN [p EXCEPT !.pc = "returned"]
                   ELSE [p EXCEPT !.pc = "cropping", !.row = @ + 1, !.col = 0]
         ELSE [p EXCEPT !.pc = "cropping"]

\* lib.ts:371-384: the dimensions are read; without a width or a height the
\* call throws, otherwise the loops begin
SplitBegin(p) ==
    IF p.width = 0 \/ p.height = 0
    THEN [p EXCEPT !.pc = "threw"]
    ELSE SplitLoopHead(p)

\* faulty variant: the failed cell is left out and the loops go on
SplitCatchSkipsCell(p) == SplitLoopHead([p EXCEPT !.col = @ + 1])

\* lib.ts:412-417: the catch around the crop logs the error and throws it on
SplitCatch(p) == [p EXCEPT !.pc = "threw"]

\* splitSpriteSheet(spriteBuffer, outputPath, filenames, format, rows, columns)
\* has just been called and has read the dimensions of the sheet
InitSplit ==
    /\ kb = KbIdle
    /\ cli = CliIdle
    /\ dl = DlIdle
    /\ run = RunIdle
    /\ LimiterUnused
    /\ ExecUnused
    /\ ct = CtIdle
    /\ poll = PollIdle
    /\ \E width \in 0..MaxW, height \in 0..MaxH, rows \in 0..MaxGrid,
          columns \in 0..MaxGrid, filenames \in SeqsUpTo(Names, MaxNames),
          format \in OutputFormats :
         sp = SplitBegin([pc |-> "called", width |-> width, height |-> height,
                          rows |-> rows, columns |-> columns,
                          filenames |-> filenames, format |-> format,
                          row |-> 0, col |-> 0,
                          outputPaths |-> <<>>, disk |-> {}, writes |-> 0])

\* lib.ts:393-417: the crop of the cell at (row, col) settles: an empty
\* rectangle cannot be extracted; otherwise the file is written and its path
\* collected (ok), or the error is thrown on
SplitCrop(ok) ==
    /\ sp.pc = "cropping"
    /\ LET cellWidth == CellWidth(sp.width, sp.columns)
           cellHeight == CellHeight(sp.height, sp.rows)
           path == CellOutputPath(
                       Filename(sp.filenames, CellIndex(sp.row, sp.col, sp.columns)),
                       sp.format)
           rect == [left |-> SplitLeft(sp.col, cellWidth),
                    top |-> SplitTop(sp.row, cellHeight),
                    width |-> cellWidth, height |-> cellHeight]
       IN IF ok /\ cellWidth >= 1 /\ cellHeight >= 1
          THEN sp' = SplitLoopHead([sp EXCEPT
                        !.disk = WriteCell(@, path, rect),
                        !.writes = @ + 1,
                        !.outputPaths = Append(@, path),
                        !.col = @ + 1])
          ELSE sp' = SplitCatch(sp)
    /\ UNCHANGED notSplit

NextSplit == \E ok \in BOOLEAN : SplitCrop(ok)

SpecSplit == InitSplit /\ [][NextSplit]_vars

\* the cells of the grid, in row-major order
GridCells == {rc \in (0..(sp.rows - 1)) \X (0..(sp.columns - 1)) : TRUE}

\* the path splitSpriteSheet gives the cell (r, c)
PathOf(r, c) ==
    CellOutputPath(Filename(sp.filenames, r * sp.columns + c), sp.format)

\* the names of the cells of the grid are pairwise distinct
DistinctNames ==
    \A x, y \in GridCells : x # y => PathOf(x[1], x[2]) # PathOf(y[1], y[2])

\* the returned paths: one per cell, in row-major order
RowMajorPaths ==
    /\ Len(sp.outputPaths) = sp.rows * sp.columns
    /\ sp.writes = sp.rows * sp.columns
    /\ \A rc \in GridCells :
          sp.outputPaths[rc[1] * sp.columns + rc[2] + 1] = PathOf(rc[1], rc[2])

\* exactly rows*columns files were written and the file of the cell (r, c)
\* holds the rectangle [c*fw, (c+1)*fw) x [r*fh, (r+1)*fh), fw = floor(W/columns),
\* fh = floor(H/rows)
FilesCoverCells ==
    /\ Cardinality(sp.disk) = sp.rows * sp.columns
    /\ \A rc \in GridCells :
          \E f \in sp.disk :
             /\ f.path = PathOf(rc[1], rc[2])
             /\ f.rect.left = rc[2] * (sp.width \div sp.columns)
             /\ f.rect.left + f.rect.width = (rc[2] + 1) * (sp.width \div sp.columns)
             /\ f.rect.top = rc[1] * (sp.height \div sp.rows)
             /\ f.rect.top + f.rect.height = (rc[1] + 1) * (sp.height \div sp.rows)

\* C20 (as stated): when every crop succeeded, exactly rows*columns files
\* were written, their paths returned in row-major order, the file of the cell
\* (r, c) holding its rectangle, however many file names were supplied.
C20_Original ==
    sp.pc = "returned" => RowMajorPaths /\ FilesCoverCells

\* C20 (amended): when every crop succeeded, splitSpriteSheet has made
\* rows*columns writes and returns rows*columns paths in row-major order, the
\* path of the cell k named filenames[k], or image-<k+1> where no name was
\* supplied; when these names are pairwise distinct, exactly rows*columns files
\* are on disk and the file of the cell (r, c) holds its rectangle; when two
\* cells share a name there are fewer files, the later cell's rectangle
\* replacing the earlier one's.
C20_SplitRowMajor ==
    sp.pc = "returned"
        => /\ RowMajorPaths
           /\ DistinctNames => FilesCoverCells
           /\ ~DistinctNames => Cardinality(sp.disk) < sp.rows * sp.columns

\* C20 witness: a 3x2 sheet was split 2x2 into four files of one pixel, one
\* name supplied and three made up
C20_Witness ==
    /\ sp.pc = "returned" /\ sp.width = 3 /\ sp.height = 2
    /\ sp.rows = 2 /\ sp.columns = 2 /\ sp.filenames = <<<<"a">>>>
    /\ Cardinality(sp.disk) = 4
    /\ [path |-> CellOutputPath(<<"image-", 4>>, sp.format),
        rect |-> [left |-> 1, top |-> 1, width |-> 1, height |-> 1]] \in sp.disk

\* the name the file of cell index k is to have
NameOfCell(k) ==
    IF k < Len(sp.filenames) THEN sp.filenames[k + 1] ELSE <<"image-", k + 1>>

MaxStr == 3      \* longest string

Chars == {"a", "A", "_", "-", " ", "!"}

\* \W: anything but a letter, a digit or the underscore
IsNonWord(c) == c \in {"-", " ", "!"}

IsLower(c) == c = "a"
IsUpper(c) == c = "A"

\* the class [\s_-]
IsSeparator(c) == c \in {" ", "_", "-"}

\* utils.ts:3  .replace(/\W/g, ' ')
ReplaceNonWord(s) == [i \in 1..Len(s) |-> IF IsNonWord(s[i]) THEN " " ELSE s[i]]

RECURSIVE SplitCamel(_)
\* utils.ts:4  .replace(/([a-z])([A-Z])/g, '$1 $2')
SplitCamel(s) ==
    IF Len(s) < 2 THEN s
    ELSE IF IsLower(s[1]) /\ IsUpper(s[2])
         THEN <<s[1], " ">> \o SplitCamel(Tail(s))
         ELSE <<s[1]>> \o SplitCamel(Tail(s))

RECURSIVE TrimStart(_)
TrimStart(s) ==
    IF s # <<>> /\ s[1] = " " THEN TrimStart(Tail(s)) ELSE s

RECURSIVE TrimEnd(_)
TrimEnd(s) ==
    IF s # <<>> /\ s[Len(s)] = " " THEN TrimEnd(SubSeq(s, 1, Len(s) - 1)) ELSE s

\* utils.ts:5  .trim()
Trim(s) == TrimEnd(TrimStart(s))

RECURSIVE Hyphenate(_)
\* utils.ts:6  .replace(/[\s_-]+/g, '-'): every run of separators is one hyphen
Hyphenate(s) ==
    IF s = <<>> THEN <<>>
    ELSE IF IsSeparator(s[1])
         THEN IF Len(s) >= 2 /\ IsSeparator(s[2])
              THEN Hyphenate(Tail(s))
              ELSE <<"-">> \o Hyphenate(Tail(s))
         ELSE <<s[1]>> \o Hyphenate(Tail(s))

\* utils.ts:7  .toLowerCase()
ToLowerCase(s) == [i \in 1..Len(s) |-> IF IsUpper(s[i]) THEN "a" ELSE s[i]]

\* utils.ts:1-8
kebabCase(str) ==
    ToLowerCase(Hyphenate(Trim(SplitCamel(ReplaceNonWord(str)))))

\* a string is about to be slugified
InitKebab ==
    /\ LimiterUnused
    /\ ExecUnused
    /\ ct = CtIdle
    /\ poll = PollIdle
    /\ sp = SpIdle
    /\ cli = CliIdle
    /\ dl = DlIdle
    /\ run = RunIdle
    /\ \E str \in SeqsUpTo(Chars, MaxStr) :
         kb = [pc |-> "given", str |-> str, once |-> <<>>, twice |-> <<>>]

\* kebabCase(str)
KebabOnce ==
    /\ kb.pc = "given"
    /\ kb' = [kb EXCEPT !.pc = "once", !.once = kebabCase(kb.str)]
    /\ UNCHANGED notKebab

\* kebabCase(kebabCase(str))
KebabTwice ==
    /\ kb.pc = "once"
    /\ kb' = [kb EXCEPT !.pc = "twice", !.twice = kebabCase(kb.once)]
    /\ UNCHANGED notKebab

NextKebab == KebabOnce \/ KebabTwice

SpecKebab == InitKebab /\ [][NextKebab]_vars

\* C22: kebabCase is idempotent: kebabCase(kebabCase(s)) = kebabCase(s) for
\* every string s.
C22_Idempotent == kb.pc = "twice" => kb.twice = kb.once

(***************************************************************************)
(* generateImages and processBatch (src/src/lib.ts:147-270, 427-547).      *)
(*                                                                         *)
(* A cell is a CellDefinition; ids and paths are kept as tuples of their   *)
(* parts (<<"image-", 3>> is `image-3`). createTask, pollTaskStatus,       *)
(* downloadImage and splitSpriteSheet settle with one of the outcomes they *)
(* can produce. The limiter of a run has 20 slots and a batch takes two,   *)
(* so within the bounds no acquire() of a run waits and the clock stands.  *)
(***************************************************************************)
\* lib.ts:199  new RateLimiter(20, 10_000, log)
GenMaxRequests == 20
GenWindowMs == 10000

\* a CellDefinition the caller supplies: the ids are image-2, cell-2, cell-3,
\* ..., pairwise distinct, the first one also the name splitSpriteSheet gives
\* to the second place of a grid when it has no file name for it
CellDef(j) ==
    [id |-> IF j = 1 THEN <<"image-", 2>> ELSE <<"cell-", j>>, name |-> <<"Cell ", j>>]

\* the strings the caller supplies as cells: `AaA`, `a_A`, `AAa`, `!A!`, whose
\* slugs are aa-a, a-a, aaa and a
CellStrings ==
    << <<"A", "a", "A">>, <<"a", "_", "A">>, <<"A", "A", "a">>, <<"!", "A", "!">> >>

\* a string the caller supplies as a cell
CellStr(j) == [str |-> CellStrings[((j - 1) % Len(CellStrings)) + 1]]

\* types.ts:47  CellDefinitions = string[] | CellDefinition[]
SuppliedCells(n, strings) ==
    [j \in 1..n |-> IF strings THEN CellStr(j) ELSE CellDef(j)]

\* lib.ts:170  typeof cell === 'string'
IsString(cell) == "str" \in DOMAIN cell

\* lib.ts:169-174: a string becomes the definition with its slug as id
NormalizeCell(cell) ==
    IF IsString(cell) THEN [id |-> kebabCase(cell.str), name |-> cell.str] ELSE cell

\* faulty variant: the made-up cells are numbered from zero
DefaultCellsFromZero(totalCells) ==
    [j \in 1..totalCells |->
        [id |-> <<"image-", j - 1>>, name |-> <<"Image ", j - 1>>]]

\* lib.ts:178-182: the cells made up when none are supplied
RECURSIVE DefaultCells(_)
DefaultCells(totalCells) ==
    IF totalCells <= 0 THEN <<>>
    ELSE Append(DefaultCells(totalCells - 1),
                [id |-> <<"image-", totalCells>>, name |-> <<"Image ", totalCells>>])

\* lib.ts:168-182: the normalized cell list (definitions pass through)
Normalized(cells, totalCells) ==
    IF Len(cells) = 0 THEN DefaultCells(totalCells)
    ELSE [j \in 1..Len(cells) |-> NormalizeCell(cells[j])]

\* Array.prototype.slice(a, b) for 0 <= a <= b
Slice(s, a, b) == SubSeq(s, a + 1, IF b < Len(s) THEN b ELSE Len(s))

\* faulty variant: a batch is cut one cell short
BatchSliceShort(cellDefs, i, totalCells) == Slice(cellDefs, i, i + totalCells - 1)

\* lib.ts:193  cellDefs.slice(i, i + totalCells)
BatchSlice(cellDefs, i, totalCells) == Slice(cellDefs, i, i + totalCells)

\* lib.ts:192: with totalCells = 0 the loop variable never moves: the loop
\* over a non-empty list pushes empty batches for ever
PartitionDiverges(cellDefs, totalCells) == totalCells <= 0 /\ Len(cellDefs) > 0

RECURSIVE SplitIntoBatches(_, _, _)
\* lib.ts:191-194: for (let i = 0; i < cellDefs.length; i += totalCells)
SplitIntoBatches(cellDefs, i, totalCells) ==
    IF i < Len(cellDefs)
    THEN <<BatchSlice(cellDefs, i, totalCells)>>
         \o SplitIntoBatches(cellDefs, i + totalCells, totalCells)
    ELSE <<>>

\* lib.ts:436-440  batches/batch-<n>.<format>
BatchImgPath(k) == <<"batches/batch-", k>>

\* faulty variant: only the cells of the batch get a file
SplitPathsNamedOnly(batchCells, format, rows, columns) ==
    [c \in 1..Len(batchCells) |-> CellOutputPath(batchCells[c].id, format)]

\* lib.ts:383-421 called as in lib.ts:528-536: the paths splitSpriteSheet
\* returns: one per cell of the grid, named by the id of the batch's cell at
\* that place or image-<cellIndex+1>, with the output format as extension
SplitPaths(batchCells, format, rows, columns) ==
    [c \in 1..(rows * columns) |->
        IF c <= Len(batchCells) THEN CellOutputPath(batchCells[c].id, format)
        ELSE CellOutputPath(<<"image-", c>>, format)]

\* lib.ts:461-467 and 540-546: the BatchResult of a batch that succeeded
BatchSuccess(k, g) ==
    [batchIndex |-> k - 1, batchImagePath |-> BatchImgPath(k),
     imagePaths |-> SplitPaths(g.batches[k], g.opts.outputFormat, g.opts.rows,
                              g.opts.columns),
     success |-> TRUE, error |-> "none"]

\* faulty variant: the failed BatchResult carries no error
BatchFailureNoError(k, err) ==
    [batchIndex |-> k - 1, batchImagePath |-> <<>>, imagePaths |-> <<>>,
     success |-> FALSE, error |-> "none"]

\* lib.ts:207-214: the BatchResult the batch task returns from its catch
BatchFailure(k, err) ==
    [batchIndex |-> k - 1, batchImagePath |-> <<>>, imagePaths |-> <<>>,
     success |-> FALSE, error |-> err]

\* faulty variant: the batch task lets the exception of processBatch through
BatchTaskUncaught(k, err) == [status |-> "rejected", reason |-> err]

\* lib.ts:202-216: the batch task catches what processBatch throws and returns
\* a failed BatchResult
BatchTaskCaught(k, err) == [status |-> "fulfilled", value |-> BatchFailure(k, err)]

\* processBatch returned: the batch task fulfils
BatchSucceed(w, k, g) ==
    Settle(w, k, [status |-> "fulfilled", value |-> BatchSuccess(k, g)], g)

\* processBatch threw err
BatchFail(w, k, err, g) ==
    Settle([w EXCEPT !.x.task[k].fault = err], k, BatchTaskCaught(k, err), g)

\* faulty variant: the results are visited from the last to the first
AggregateOrderReversed(results) ==
    [n \in 1..Len(results) |-> Len(results) - n + 1]

\* lib.ts:230  for (const result of results): the array is visited by index
AggregateOrder(results) == [n \in 1..Len(results) |-> n]

RECURSIVE Aggregate(_, _, _)
\* lib.ts:230-246: the results are folded in the order of the results array
Aggregate(results, k, acc) ==
    IF k > Len(results) THEN acc
    ELSE LET r == results[AggregateOrder(results)[k]] IN
         Aggregate(results, k + 1,
            IF r.status = "fulfilled"
            THEN IF r.value.success
                 THEN [acc EXCEPT !.batchImagePaths = Append(@, r.value.batchImagePath),
                                  !.imagePaths = @ \o r.value.imagePaths]
                 ELSE IF r.value.error # "none"
                 THEN [acc EXCEPT !.errors =
                          Append(@, [batchIndex |-> r.value.batchIndex,
                                     error |-> r.value.error])]
                 ELSE acc
            ELSE [acc EXCEPT !.errors =
                     Append(@, [batchIndex |-> -1, error |-> r.reason])])

\* lib.ts:248-269: the ImageGenerationResult
GenerationResult(results, numBatches) ==
    LET acc == Aggregate(results, 1,
                 [batchImagePaths |-> <<>>, imagePaths |-> <<>>, errors |-> <<>>]) IN
    [batchImagePaths |-> acc.batchImagePaths, imagePaths |-> acc.imagePaths,
     errors |-> acc.errors, totalBatches |-> numBatches,
     successfulBatches |-> numBatches - Len(acc.errors)]

\* types.ts:33  DEFAULT_OPTIONS.outputFormat: the runs leave it alone
DefaultOutputFormat == "png"

MaxRows == 1      \* largest rows option
MaxCols == 2      \* largest columns option
MaxCells == 3     \* longest supplied cell list
MaxPre == 1       \* most sheets on disk before the run: those of batches 1..p

\* generateImages(apiKey, prompt, options, cells) has just been called
InitGen ==
    /\ sp = SpIdle
    /\ kb = KbIdle
    /\ cli = CliIdle
    /\ dl = DlIdle
    /\ run = RunIdle
    /\ now = 0
    /\ rlMax = GenMaxRequests
    /\ rlWindow = GenWindowMs
    /\ timestamps = <<>>
    /\ admits = <<>>
    /\ caller = [c \in Callers |-> IdleCaller]
    /\ slots = NoSlots
    /\ ct = CtIdle
    /\ poll = PollIdle
    /\ ex = ExIdle
    /\ files \in {1..p : p \in 0..MaxPre}
    /\ \E rows \in 0..MaxRows, columns \in 0..MaxCols, n \in 0..MaxCells,
          conc \in 0..MaxConc, existing \in {"overwrite", "skip"},
          strings \in BOOLEAN :
         gen = [pc |-> "called",
                opts |-> [rows |-> rows, columns |-> columns, existing |-> existing,
                          outputFormat |-> DefaultOutputFormat,
                          maxConcurrentBatches |-> conc],
                cells |-> SuppliedCells(n, strings),
                cellDefs |-> <<>>, batches |-> <<>>, pre |-> files,
                result |-> [totalBatches |-> -1]]

\* lib.ts:153-227: the cells are normalized, the output directories made
\* (dirsOk: mkdir succeeded), the batches cut, the limiter and the batch tasks
\* created and executeWithRateLimit called, which runs up to its first await
GenStart(dirsOk) ==
    /\ gen.pc = "called"
    /\ LET totalCells == gen.opts.rows * gen.opts.columns
           cellDefs == Normalized(gen.cells, totalCells)
       IN IF ~dirsOk
          THEN /\ gen' = [gen EXCEPT !.pc = "raised", !.cellDefs = cellDefs]
               /\ UNCHANGED <<timestamps, admits, files, ex>>
          ELSE IF PartitionDiverges(cellDefs, totalCells)
          THEN /\ gen' = [gen EXCEPT !.pc = "partitioning", !.cellDefs = cellDefs]
               /\ UNCHANGED <<timestamps, admits, files, ex>>
          ELSE LET g == [gen EXCEPT !.pc = "executing", !.cellDefs = cellDefs,
                             !.batches = SplitIntoBatches(cellDefs, 0, totalCells)]
                   w0 == [Work EXCEPT
                             !.x = NewEx(Len(g.batches), g.opts.maxConcurrentBatches)]
               IN /\ gen' = g
                  /\ Commit(StartAdmitted(MainLoop(w0), g, 1))
    /\ UNCHANGED notExec

\* the batch k is at the step st of processBatch while the executor waits
BatchAt(k, st) ==
    /\ gen.pc = "executing"
    /\ ex.mainpc \in {"awaitRace", "awaitAll"}
    /\ ex.task[k].st = st

\* faulty variant: the exception of the re-split fails the batch
ResplitCatchRethrows(w, k, g) ==
    BatchFail([w EXCEPT !.x.task[k].resplit = "failed"], k, "re-split failed", g)

\* lib.ts:468-476: the catch of the skip branch logs the exception and lets
\* processBatch go on to generate the batch
ResplitCatch(w, k, g) ==
    BatchGenerate([w EXCEPT !.x.task[k].resplit = "failed"], k)

\* lib.ts:447-473: loading and splitting the existing sheet is over: the batch
\* succeeds, or on an exception goes on to be generated
GenResplitDone(k, ok) ==
    /\ BatchAt(k, "resplitting")
    /\ Commit(IF ok
              THEN BatchSucceed([Work EXCEPT !.x.task[k].resplit = "ok"], k, gen)
              ELSE ResplitCatch(Work, k, gen))
    /\ UNCHANGED <<gen, notExec>>

\* lib.ts:500-512: createTask settled: the task is polled, or the batch fails
GenCreateTaskDone(k, ok) ==
    /\ BatchAt(k, "creating")
    /\ Commit(IF ok THEN [Work EXCEPT !.x.task[k].st = "polling"]
              ELSE BatchFail(Work, k, "createTask threw", gen))
    /\ UNCHANGED <<gen, notExec>>

\* what pollTaskStatus settles with
PollOutcomes == {"urls", "no urls", "TaskFailedError", "poll threw"}

\* the resultUrls of a task that succeeded with URLs
ResultUrls == <<"u1", "u2">>

\* faulty variant: the last URL is taken
LastResultUrl(resultUrls) == resultUrls[Len(resultUrls)]

\* lib.ts:518  result.resultUrls[0]
FirstResultUrl(resultUrls) == resultUrls[1]

\* pollTaskStatus returned a result (it did not throw)
PollReturned(out) == out \in {"urls", "no urls"}

\* faulty variant: the result is used without a look at its resultUrls
NoResultUrlsUnchecked(out) == FALSE

\* lib.ts:514  !result.resultUrls || result.resultUrls.length === 0
NoResultUrls(out) == out = "no urls"

\* lib.ts:506-522: pollTaskStatus settled: with a URL the sheet is downloaded,
\* with none or on an exception the batch fails
GenPollDone(k, out) ==
    /\ BatchAt(k, "polling")
    /\ LET w == [Work EXCEPT !.x.task[k].polled = out] IN
       Commit(IF ~PollReturned(out) THEN BatchFail(w, k, out, gen)
              ELSE IF NoResultUrls(out)
              THEN BatchFail(w, k, "No image URLs returned", gen)
              ELSE [w EXCEPT !.x.task[k].st = "downloading",
                             !.x.task[k].url = FirstResultUrl(ResultUrls)])
    /\ UNCHANGED <<gen, notExec>>

\* lib.ts:522-536: downloadImage settled: the sheet is on disk and is split, or
\* the batch fails
GenDownloadDone(k, ok) ==
    /\ BatchAt(k, "downloading")
    /\ Commit(IF ok
              THEN [Work EXCEPT !.files = @ \cup {k}, !.x.task[k].st = "splitting"]
              ELSE BatchFail(Work, k, "download failed", gen))
    /\ UNCHANGED <<gen, notExec>>

\* lib.ts:525-546: loading and splitting the downloaded sheet is over
GenSplitDone(k, ok) ==
    /\ BatchAt(k, "splitting")
    /\ Commit(IF ok THEN BatchSucceed(Work, k, gen)
              ELSE BatchFail(Work, k, "split failed", gen))
    /\ UNCHANGED <<gen, notExec>>

\* lib.ts:223-269: executeWithRateLimit returned: the results are aggregated
\* and generateImages returns
GenReturn ==
    /\ gen.pc = "executing"
    /\ ex.mainpc = "returned"
    /\ gen' = [gen EXCEPT !.pc = "returned",
                          !.result = GenerationResult(ex.results, Len(gen.batches))]
    /\ UNCHANGED <<timestamps, admits, files, ex, notExec>>

NextGen ==
    \/ \E dirsOk \in BOOLEAN : GenStart(dirsOk)
    \/ \E k \in 1..Len(gen.batches), ok \in BOOLEAN : GenResplitDone(k, ok)
    \/ \E k \in 1..Len(gen.batches), ok \in BOOLEAN : GenCreateTaskDone(k, ok)
    \/ \E k \in 1..Len(gen.batches), out \in PollOutcomes : GenPollDone(k, out)
    \/ \E k \in 1..Len(gen.batches), ok \in BOOLEAN : GenDownloadDone(k, ok)
    \/ \E k \in 1..Len(gen.batches), ok \in BOOLEAN : GenSplitDone(k, ok)
    \/ GenReturn

SpecGen == InitGen /\ [][NextGen]_vars

(***************************************************************************)
(* The requests one generated batch sends to the service                   *)
(* (src/src/lib.ts:484-512, processBatch from its acquire() to the end of  *)
(* pollTaskStatus).                                                        *)
(*                                                                         *)
(* One batch runs alone: the executor and processBatch have each taken a   *)
(* slot of the run's limiter and createTask has sent its first request.    *)
(* Responses arrive in the millisecond of their request, so the clock      *)
(* moves with the delays only; run.log holds the start time of every       *)
(* request sent to the service.                                            *)
(***************************************************************************)
MaxTrafficPolls == 22   \* largest maxPollAttempts option tried

\* the pollIntervalMs options tried: a short one and the default
TrafficIntervals == {100, IntervalMs}

\* the answers to the task submission: accepted, a 5xx and a 4xx
TrafficCreateResponses ==
    {Resp(200, 0, 0, "t1"), Resp(500, 0, 0, ""), Resp(400, 0, 0, "")}

\* the answers to a status request: still generating, success and fail
TrafficStatusResponses ==
    {StatusResp(200, 0, "generating", "", "", ""),
     StatusResp(200, 0, "success", "{\"resultUrls\":[\"u1\"]}", "", ""),
     StatusResp(200, 0, "fail", "", "500", "boom")}

\* lib.ts:500 and part_004:131-136: createTask moved on to c: a request it
\* sends starts now (t), and when it threw processBatch is over
RunAfterCreate(r, c, t) ==
    IF c.pc = "fetching" THEN [r EXCEPT !.log = Append(@, t)]
    ELSE IF c.pc = "threw" THEN [r EXCEPT !.pc = "done"]
    ELSE r

\* lib.ts:506-512 and part_004:221-224: pollTaskStatus moved on to p: a status
\* request it sends starts now (t), and when it settled the requests are over
RunAfterPoll(r, p, t) ==
    IF p.pc = "fetching" THEN [r EXCEPT !.pc = "polling", !.log = Append(@, t)]
    ELSE IF p.pc \in {"returned", "threw"} THEN [r EXCEPT !.pc = "done"]
    ELSE r

\* lib.ts:506-512  pollTaskStatus(taskId, apiKey, opts.maxPollAttempts,
\* opts.pollIntervalMs, log) up to its first await
PollCall(taskId, maxAttempts, interval) ==
    PollLoopHead([pc |-> "called", taskId |-> taskId, maxAttempts |-> maxAttempts,
                  interval |-> interval, attempt |-> 0, consecutiveErrors |-> 0,
                  fetches |-> 0, waits |-> <<>>, hist |-> <<>>,
                  last |-> StatusResp(0, 0, "", "", "", ""),
                  thrown |-> NoError, result |-> <<>>])

\* types.ts:135-136 (runTask) and lib.ts:485-500: the executor's acquire() and
\* processBatch's acquire() were admitted at once by the fresh limiter of the
\* run, and createTask has sent its first request
InitTraffic ==
    /\ sp = SpIdle
    /\ kb = KbIdle
    /\ cli = CliIdle
    /\ dl = DlIdle
    /\ ExecUnused
    /\ now = 0
    /\ rlMax = GenMaxRequests
    /\ rlWindow = GenWindowMs
    /\ timestamps =
          AcquireTry(AcquireTry(<<>>, 0, GenMaxRequests, GenWindowMs).ts,
                     0, GenMaxRequests, GenWindowMs).ts
    /\ admits = <<>>
    /\ caller = [c \in Callers |-> IdleCaller]
    /\ slots = NoSlots
    /\ poll = PollIdle
    /\ \E m \in 0..MaxRetriesBound, a \in {1, MaxTrafficPolls}, i \in TrafficIntervals :
         /\ ct = CtLoopHead([pc |-> "called", maxRetries |-> m, attempt |-> 0,
                             next |-> 0, requests |-> 0, waits |-> <<>>,
                             hist |-> <<>>, lastError |-> NoError,
                             thrown |-> NoError, result |-> ""])
         /\ run = [pc |-> "creating", maxPollAttempts |-> a, pollIntervalMs |-> i,
                   log |-> <<0>>]

\* lib.ts:500-512: the submission in flight settles with r; once createTask
\* returns, pollTaskStatus is called and sends its first status request
TrafficCreateResponse(r) ==
    /\ run.pc = "creating"
    /\ ct.pc = "fetching"
    /\ LET c == CtHandle([ct EXCEPT !.hist = Append(@, r)], r) IN
         /\ ct' = c
         /\ IF c.pc = "returned"
            THEN LET p == PollCall(c.result, run.maxPollAttempts, run.pollIntervalMs) IN
                 /\ poll' = p
                 /\ run' = RunAfterPoll(run, p, now)
            ELSE /\ run' = RunAfterCreate(run, c, now)
                 /\ UNCHANGED poll
    /\ UNCHANGED <<now, timestamps, notTraffic>>

\* part_004: the delay() of createTask is over: the next submission is sent
TrafficCreateDelayDone ==
    /\ run.pc = "creating"
    /\ ct.pc = "delaying"
    /\ now' = now + ct.waits[Len(ct.waits)]
    /\ ct' = CtLoopHead([ct EXCEPT !.attempt = ct.next])
    /\ run' = RunAfterCreate(run, ct', now')
    /\ UNCHANGED <<poll, timestamps, notTraffic>>

\* part_004:224-273: the status request in flight settles with r
TrafficPollResponse(r) ==
    /\ run.pc = "polling"
    /\ poll.pc = "fetching"
    /\ poll' = PollHandle([poll EXCEPT !.hist = Append(@, StatusClass(r)),
                                       !.last = r], r)
    /\ run' = RunAfterPoll(run, poll', now)
    /\ UNCHANGED <<now, ct, timestamps, notTraffic>>

\* part_004:221 and 273: the delay() of pollTaskStatus is over: the next status
\* request is sent, or the attempts are used up
TrafficPollDelayDone ==
    /\ run.pc = "polling"
    /\ poll.pc = "delaying"
    /\ now' = now + poll.waits[Len(poll.waits)]
    /\ poll' = PollLoopHead([poll EXCEPT
                 !.attempt = PollNextAttempt(@, poll.hist[Len(poll.hist)])])
    /\ run' = RunAfterPoll(run, poll', now')
    /\ UNCHANGED <<ct, timestamps, notTraffic>>

NextTraffic ==
    \/ \E r \in TrafficCreateResponses : TrafficCreateResponse(r)
    \/ TrafficCreateDelayDone
    \/ \E r \in TrafficStatusResponses : TrafficPollResponse(r)
    \/ TrafficPollDelayDone

SpecTraffic == InitTraffic /\ [][NextTraffic]_vars

RECURSIVE Flatten(_)
\* the concatenation of the batches in batch order
Flatten(bs) == IF bs = <<>> THEN <<>> ELSE Head(bs) \o Flatten(Tail(bs))

\* b = ceil(n / cap), stated without a division: b is the least number of
\* batches of cap cells that hold n cells
IsCeil(b, n, cap) == b * cap >= n /\ (b = 0 \/ (b - 1) * cap < n)

\* the batches have been cut
PartitionDone == gen.pc \in {"executing", "returned"}

Capacity == gen.opts.rows * gen.opts.columns

\* C3 (as stated): a supplied cell list of length N is cut into exactly
\* ceil(N / (rows*columns)) batches whose concatenation is the supplied list.
C3_Original ==
    PartitionDone
        => /\ IsCeil(Len(gen.batches), Len(gen.cells), Capacity)
           /\ Flatten(gen.batches) = gen.cells

\* C3 (amended): whenever the batches have been cut, they are cut from the
\* normalized list (the supplied cells, or rows*columns made-up cells when none
\* are supplied): their number is ceil(N' / (rows*columns)) for its length N',
\* and their concatenation in batch order is that list; for a supplied list of
\* length N >= 1 that is the supplied list, each string cell as its
\* definition, and ceil(N / (rows*columns)).
C3_PartitionOfNormalized ==
    PartitionDone
        => /\ IsCeil(Len(gen.batches), Len(gen.cellDefs), Capacity)
           /\ Flatten(gen.batches) = gen.cellDefs
           /\ Len(gen.cells) >= 1
                => gen.cellDefs = [j \in 1..Len(gen.cells) |-> NormalizeCell(gen.cells[j])]
           /\ Len(gen.cells) = 0 => Len(gen.cellDefs) = Capacity

\* C3 witness: three supplied cells and capacity 2 gave batches of 2 and 1 cells
C3_Witness ==
    /\ PartitionDone /\ Len(gen.cells) = 3 /\ Capacity = 2
    /\ Len(gen.batches) = 2 /\ Len(gen.batches[2]) = 1

\* the entries of errors that carry the batch index b
ErrorsOf(b) ==
    {i \in 1..Len(gen.result.errors) : gen.result.errors[i].batchIndex = b}

\* C4: when generateImages returns, a batch whose task reported fail, or whose
\* processing raised at any step, is exactly one entry of errors carrying its
\* batch index and its error; every batch was processed to its end, a batch
\* whose own steps succeeded is a success with no entry of errors; and once the
\* directories are made generateImages does not raise.
C4_FailureIsolated ==
    /\ gen.pc = "raised" => ex = ExIdle
    /\ gen.pc = "returned" =>
         \A k \in 1..Len(gen.batches) :
            /\ ex.task[k].st = "done"
            /\ ex.results[k].status = "fulfilled"
            /\ IF ex.task[k].fault = "none"
               THEN /\ ErrorsOf(k - 1) = {}
                    /\ ex.results[k].value.success
                    /\ BatchImgPath(k) \in
                         {gen.result.batchImagePaths[i] :
                             i \in 1..Len(gen.result.batchImagePaths)}
               ELSE /\ Cardinality(ErrorsOf(k - 1)) = 1
                    /\ \A i \in ErrorsOf(k - 1) :
                          gen.result.errors[i].error = ex.task[k].fault
                    /\ ~ex.results[k].value.success

\* C4 witness: a run returned in which the task of batch 1 reported fail and
\* batch 2 succeeded
C4_Witness ==
    /\ gen.pc = "returned" /\ Len(gen.batches) >= 2
    /\ ex.task[1].fault = "TaskFailedError"
    /\ ex.task[2].fault = "none"
    /\ gen.result.successfulBatches = Len(gen.batches) - 1

\* C5: a call whose directories were made always returns a result: while it
\* has neither returned (nor raised during the setup) some step of it can
\* still be taken, whatever the options.
C5_AlwaysReturns ==
    gen.pc \in {"returned", "raised"} \/ ENABLED NextGen

\* with existing = 'skip', the sheet of batch k was on disk when the run began
\* and processBatch has been called for it
SkipHit(k) ==
    /\ gen.opts.existing = "skip" /\ k \in gen.pre
    /\ ex.task[k].st \notin {"new", "admitted", "rlWait"}

\* C15 (as stated): with existing = 'skip' and the batch's sheet on disk,
\* processing the batch makes no task-submission call.
C15_Original ==
    PartitionDone =>
        \A k \in 1..Len(gen.batches) : SkipHit(k) => ex.task[k].created = 0

\* C15 (amended): with existing = 'skip' and the batch's sheet on disk, the
\* batch first loads and splits the existing sheet and makes no submission
\* while doing so; when that succeeds the batch is a success whose sheet is the
\* existing file and whose images are the split's, and no task is ever
\* submitted for it; a task is submitted only when loading or splitting the
\* existing sheet raised.
C15_SkipReusesSheet ==
    PartitionDone =>
        \A k \in 1..Len(gen.batches) : SkipHit(k) =>
            /\ ex.task[k].resplit = "none"
                  => ex.task[k].st = "resplitting" /\ ex.task[k].created = 0
            /\ ex.task[k].resplit = "ok"
                  => /\ ex.task[k].created = 0
                     /\ ex.task[k].st = "done"
                     /\ ex.results[k] =
                           [status |-> "fulfilled", value |-> BatchSuccess(k, gen)]
            /\ ex.task[k].created > 0 => ex.task[k].resplit = "failed"

\* C15 witness: a run returned whose batch 1 was taken from the sheet on disk
\* while batch 2 was generated
C15_Witness ==
    /\ gen.pc = "returned" /\ Len(gen.batches) = 2
    /\ SkipHit(1) /\ ex.task[1].resplit = "ok" /\ ex.task[1].created = 0
    /\ ex.task[2].created = 1
    /\ Len(gen.result.imagePaths) = 2 * Capacity

\* the place of x in the sequence s (0: not in s)
PosIn(s, x) == IF \E n \in 1..Len(s) : s[n] = x
               THEN CHOOSE n \in 1..Len(s) : s[n] = x ELSE 0

\* batch k succeeded
Succeeded(k) == ex.results[k].status = "fulfilled" /\ ex.results[k].value.success

\* batch j finished before batch i
FinishedBefore(j, i) == PosIn(ex.finished, j) < PosIn(ex.finished, i)

\* C19 (as stated): the paths are concatenated in completion order: when a
\* higher-index batch finished before a lower-index batch, its sheet path comes
\* first in batchImagePaths.
C19_Original ==
    gen.pc = "returned" =>
        \A i, j \in 1..Len(gen.batches) :
            (i < j /\ Succeeded(i) /\ Succeeded(j) /\ FinishedBefore(j, i))
                => PosIn(gen.result.batchImagePaths, BatchImgPath(j))
                     < PosIn(gen.result.batchImagePaths, BatchImgPath(i))

\* C19 (amended): batchImagePaths and imagePaths are concatenated in batch
\* index order whatever the completion order: batchImagePaths holds the sheet
\* paths of the successful batches by increasing index, and imagePaths is the
\* concatenation of their image paths in the same order.
C19_IndexOrder ==
    gen.pc = "returned" =>
        LET bip == gen.result.batchImagePaths IN
        /\ Len(bip) = Cardinality({k \in 1..Len(gen.batches) : Succeeded(k)})
        /\ \A i, j \in 1..Len(gen.batches) :
              (i < j /\ Succeeded(i) /\ Succeeded(j))
                 => /\ PosIn(bip, BatchImgPath(i)) >= 1
                    /\ PosIn(bip, BatchImgPath(i)) < PosIn(bip, BatchImgPath(j))
        /\ gen.result.imagePaths =
              Flatten([n \in 1..Len(bip) |->
                         SplitPaths(gen.batches[bip[n][2]], gen.opts.outputFormat,
                                    gen.opts.rows, gen.opts.columns)])

\* C19 witness: batch 2 finished before batch 1, both succeeded, and the sheet
\* of batch 1 is listed first
C19_Witness ==
    /\ gen.pc = "returned" /\ Len(gen.batches) = 2
    /\ Succeeded(1) /\ Succeeded(2) /\ ex.finished = <<2, 1>>
    /\ gen.result.batchImagePaths = <<BatchImgPath(1), BatchImgPath(2)>>

\* the cells image-1 .. image-n, in that order
ImageCells(n) ==
    [j \in 1..n |-> [id |-> <<"image-", j>>, name |-> <<"Image ", j>>]]

\* C23 (as stated): with no cells supplied, rows*columns cells image-1 ..
\* image-(rows*columns) are made up in that order and form exactly one batch.
C23_Original ==
    (PartitionDone /\ Len(gen.cells) = 0)
        => /\ gen.cellDefs = ImageCells(Capacity)
           /\ Len(gen.batches) = 1
           /\ gen.batches[1] = gen.cellDefs

\* C23 (amended): with no cells supplied, rows*columns cells image-1 ..
\* image-(rows*columns) are made up in that order; with rows*columns >= 1 they
\* form exactly one batch, and with rows*columns = 0 no cell is made up and
\* there is no batch at all.
C23_DefaultCells ==
    (PartitionDone /\ Len(gen.cells) = 0)
        => /\ gen.cellDefs = ImageCells(Capacity)
           /\ Capacity >= 1 => gen.batches = <<gen.cellDefs>>
           /\ Capacity = 0 => gen.batches = <<>>

\* C23 witness: a 1x2 grid and no cells gave the single batch image-1, image-2
C23_Witness ==
    /\ PartitionDone /\ Len(gen.cells) = 0 /\ Capacity = 2
    /\ Len(gen.batches) = 1
    /\ gen.batches[1][2].id = <<"image-", 2>>

\* generateImages returned and every batch of the run succeeded
AllSucceeded ==
    /\ gen.pc = "returned"
    /\ \A k \in 1..Len(gen.batches) : Succeeded(k)

\* the path of the file of the string cell s
StringCellPath(s) == CellOutputPath(kebabCase(s), gen.opts.outputFormat)

SuccessfulBatches == {k \in 1..Len(gen.batches) : Succeeded(k)}

\* C25: in the result generateImages returns, successfulBatches is the number
\* of batches whose BatchResult has success = true and the length of
\* batchImagePaths, and successfulBatches + errors.length = totalBatches = the
\* number of batches created.
C25_ResultCounts ==
    gen.pc = "returned"
        => /\ gen.result.successfulBatches = Cardinality(SuccessfulBatches)
           /\ gen.result.successfulBatches = Len(gen.result.batchImagePaths)
           /\ gen.result.successfulBatches + Len(gen.result.errors)
                 = gen.result.totalBatches
           /\ gen.result.totalBatches = Len(gen.batches)

\* C25 witness: of two batches the first failed and the second succeeded
C25_Witness ==
    /\ gen.pc = "returned" /\ Len(gen.batches) = 2
    /\ ~Succeeded(1) /\ Succeeded(2)
    /\ gen.result.successfulBatches = 1
    /\ Len(gen.result.errors) = 1

\* the requests to the service that started in the window that ends with
\* the i-th request
RequestsInWindow(i) ==
    {j \in 1..i : run.log[i] - run.log[j] < GenWindowMs}

\* C26: across a run, at most 20 requests to the generation service (task
\* submissions with their retries, and status polls) start within any trailing
\* 10-second window.
C26_RequestsRateLimited ==
    run.pc # "idle"
        => \A i \in 1..Len(run.log) :
              Cardinality(RequestsInWindow(i)) <= GenMaxRequests

(***************************************************************************)
(* parseArgs and runCLI (src/unnamed/part_001:96-330).                     *)
(*                                                                         *)
(* An argument is one of the strings of CliTokens. A JavaScript number is  *)
(* kept as a record: an integer n, NaN, or Infinity.                       *)
(***************************************************************************)
MaxArgs == 2     \* longest argument list after the node and script paths
MaxErrors == 2   \* most entries of the errors list of a result

\* the value of an array element that does not exist
Undefined == "<undefined>"

\* stands for a decimal digit string too long for a double: 1 followed by 309
\* zeros
HugeDigits == "1000...(309 zeros)"

Num(n) == [nan |-> FALSE, inf |-> FALSE, n |-> n]
NaN == [nan |-> TRUE, inf |-> FALSE, n |-> 0]
Infinity == [nan |-> FALSE, inf |-> TRUE, n |-> 0]

\* part_004:3-18
AspectRatios ==
    {"1:1", "2:3", "3:2", "3:4", "4:3", "4:5", "5:4", "9:16", "16:9", "21:9", "auto"}
Resolutions == {"1K", "2K", "4K"}

\* the options that take no value and those that take one
FlagTokens == {"-h", "--help", "-v", "-q"}
ValueOptionTokens ==
    {"-c", "-o", "-x", "-y", "--rows", "-a", "-r", "-f", "-m", "--concurrency",
     "--existing"}

\* the arguments tried
CliTokens ==
    FlagTokens \cup ValueOptionTokens
    \cup {"a prompt", "Cat,Dog", "3", "0", "-2", "2.5", "abc", HugeDigits,
          "16:9", "2K", "jpg", "skip"}

\* String.prototype.startsWith('-') on the arguments tried
StartsWithDash(arg) == arg \in FlagTokens \cup ValueOptionTokens \cup {"-2"}

\* parseInt(str, 10) on the arguments tried: the leading integer, NaN when
\* there is none, Infinity when it is beyond the range of a double
ParseInt(str) ==
    CASE str = "3" -> Num(3)
      [] str = "0" -> Num(0)
      [] str = "-2" -> Num(-2)
      [] str = "2.5" -> Num(2)
      [] str = HugeDigits -> Infinity
      [] OTHER -> NaN

\* part_001:135, 141, 168  !isNaN(value) && value > 0
IsPositive(v) == ~v.nan /\ (v.inf \/ v.n > 0)

\* part_001:204-209  parseCellList on the arguments tried
ParseCellList(input) ==
    IF input = "Cat,Dog" THEN <<"Cat", "Dog">> ELSE <<input>>

\* args[i] for a zero-based index i
ArgAt(args, i) == IF i >= 0 /\ i < Len(args) THEN args[i + 1] ELSE Undefined

\* part_001:99-114  the defaults (types.ts:25-40)
CliDefaults ==
    [help |-> FALSE, version |-> FALSE, prompt |-> Undefined, cells |-> <<>>,
     output |-> "./out", rows |-> Num(5), columns |-> Num(5),
     aspectRatio |-> "1:1", resolution |-> "4K", format |-> "png",
     model |-> "nano-banana-pro", concurrency |-> Num(10), quiet |-> FALSE,
     existing |-> "overwrite"]

\* part_001:124-188: one pass of the loop body on the argument arg with the
\* value candidate value = args[i + 1]: the result and the arguments consumed
ParseStep(arg, value, result) ==
    CASE arg \in {"-h", "--help"} -> [r |-> [result EXCEPT !.help = TRUE], used |-> 1]
      [] arg \in {"-v", "--version"} ->
            [r |-> [result EXCEPT !.version = TRUE], used |-> 1]
      [] arg \in {"-c", "--cells"} ->
            [r |-> IF value # Undefined /\ value # ""
                   THEN [result EXCEPT !.cells = ParseCellList(value)] ELSE result,
             used |-> 2]
      [] arg \in {"-o", "--output"} ->
            [r |-> IF value # Undefined THEN [result EXCEPT !.output = value]
                   ELSE result,
             used |-> 2]
      [] arg \in {"-x", "--columns"} ->
            [r |-> IF IsPositive(ParseInt(value))
                   THEN [result EXCEPT !.columns = ParseInt(value)] ELSE result,
             used |-> 2]
      [] arg \in {"-y", "--rows"} ->
            [r |-> IF IsPositive(ParseInt(value))
                   THEN [result EXCEPT !.rows = ParseInt(value)] ELSE result,
             used |-> 2]
      [] arg \in {"-a", "--aspect-ratio"} ->
            [r |-> IF value \in AspectRatios
                   THEN [result EXCEPT !.aspectRatio = value] ELSE result,
             used |-> 2]
      [] arg \in {"-r", "--resolution"} ->
            [r |-> IF value \in Resolutions
                   THEN [result EXCEPT !.resolution = value] ELSE result,
             used |-> 2]
      [] arg \in {"-f", "--format"} ->
            [r |-> IF value \in OutputFormats
                   THEN [result EXCEPT !.format = value] ELSE result,
             used |-> 2]
      [] arg \in {"-m", "--model"} ->
            [r |-> IF value # Undefined THEN [result EXCEPT !.model = value]
                   ELSE result,
             used |-> 2]
      [] arg = "--concurrency" ->
            [r |-> IF IsPositive(ParseInt(value))
                   THEN [result EXCEPT !.concurrency = ParseInt(value)] ELSE result,
             used |-> 2]
      [] arg = "--existing" ->
            [r |-> IF value \in {"overwrite", "skip"}
                   THEN [result EXCEPT !.existing = value] ELSE result,
             used |-> 2]
      [] arg \in {"-q", "--quiet"} ->
            [r |-> [result EXCEPT !.quiet = TRUE], used |-> 1]
      [] OTHER ->
            [r |-> IF ~StartsWithDash(arg) /\ result.prompt \in {Undefined, ""}
                   THEN [result EXCEPT !.prompt = arg] ELSE result,
             used |-> 1]

RECURSIVE ParseLoop(_, _, _)
\* part_001:116-190  while (i < args.length)
ParseLoop(args, i, result) ==
    IF i < Len(args)
    THEN LET step == ParseStep(ArgAt(args, i), ArgAt(args, i + 1), result) IN
         ParseLoop(args, i + step.used, step.r)
    ELSE result

\* part_001:96-191  parseArgs(argv): argv.slice(2) is parsed
parseArgs(argv) ==
    ParseLoop(SubSeq(argv, 3, Len(argv)), 0, CliDefaults)

\* the lists of at most n errors
ErrorLists == {[k \in 1..m |-> [batchIndex |-> k - 1]] : m \in 0..MaxErrors}

\* no ImageGenerationResult yet
NoResult == [has |-> FALSE, errors |-> <<>>]

\* faulty variant: a single failed batch is let through
CliFailsLenient(errors) == Len(errors) > 1

\* part_001:326  result.errors.length > 0
CliFails(errors) == Len(errors) > 0

\* part_001:267-298: the required arguments are checked (token: the
\* environment has KIE_API_TOKEN), the options built and generateImages called
CliCheck(c) ==
    IF c.args.prompt \in {Undefined, ""} \/ ~c.token
    THEN [c EXCEPT !.pc = "exited", !.exitCode = 1]
    ELSE [c EXCEPT !.pc = "generating",
                   !.options = [outputPath |-> c.args.output, rows |-> c.args.rows,
                                columns |-> c.args.columns,
                                aspectRatio |-> c.args.aspectRatio,
                                resolution |-> c.args.resolution,
                                outputFormat |-> c.args.format,
                                model |-> c.args.model,
                                maxConcurrentBatches |-> c.args.concurrency,
                                verbose |-> ~c.args.quiet,
                                existing |-> c.args.existing]]

\* runCLI(argv) has just been called; exitCode is the code given to
\* process.exit(), 0 as long as it was not called
InitCli ==
    /\ sp = SpIdle
    /\ kb = KbIdle
    /\ dl = DlIdle
    /\ run = RunIdle
    /\ LimiterUnused
    /\ ExecUnused
    /\ ct = CtIdle
    /\ poll = PollIdle
    /\ \E args \in SeqsUpTo(CliTokens, MaxArgs), token \in BOOLEAN :
         cli = [pc |-> "called", argv |-> <<"bun", "cli.js">> \o args,
                token |-> token, args |-> CliDefaults, options |-> <<>>,
                result |-> NoResult, exitCode |-> 0]

\* part_001:247-265: the arguments are parsed; help and version return, and
\* without cells stdin is read; otherwise the run goes on to its checks
CliStart ==
    /\ cli.pc = "called"
    /\ LET c == [cli EXCEPT !.args = parseArgs(cli.argv)] IN
         cli' = IF c.args.help \/ c.args.version THEN [c EXCEPT !.pc = "returned"]
                ELSE IF Len(c.args.cells) = 0 THEN [c EXCEPT !.pc = "readingStdin"]
                ELSE CliCheck(c)
    /\ UNCHANGED notCli

\* part_001:259-265: readStdin settled with data (Undefined: null)
CliStdinRead(data) ==
    /\ cli.pc = "readingStdin"
    /\ cli' = CliCheck(IF data \notin {Undefined, ""}
                       THEN [cli EXCEPT !.args.cells = ParseCellList(data)]
                       ELSE cli)
    /\ UNCHANGED notCli

\* part_001:222-225: readStdin rejected: runCLI rejects
CliStdinFailed ==
    /\ cli.pc = "readingStdin"
    /\ cli' = [cli EXCEPT !.pc = "rejected"]
    /\ UNCHANGED notCli

\* part_001:308-329: generateImages returned a result with the given errors:
\* the process exits with code 1 when there are any, else runCLI returns
CliGenerated(errors) ==
    /\ cli.pc = "generating"
    /\ cli' = IF CliFails(errors)
              THEN [cli EXCEPT !.pc = "exited", !.exitCode = 1,
                               !.result = [has |-> TRUE, errors |-> errors]]
              ELSE [cli EXCEPT !.pc = "returned",
                               !.result = [has |-> TRUE, errors |-> errors]]
    /\ UNCHANGED notCli

\* part_001:308: generateImages threw: runCLI rejects
CliGenerateThrew ==
    /\ cli.pc = "generating"
    /\ cli' = [cli EXCEPT !.pc = "rejected"]
    /\ UNCHANGED notCli

NextCli ==
    \/ CliStart
    \/ \E data \in {Undefined, "Cat,Dog"} : CliStdinRead(data)
    \/ CliStdinFailed
    \/ \E errors \in ErrorLists : CliGenerated(errors)
    \/ CliGenerateThrew

SpecCli == InitCli /\ [][NextCli]_vars

\* C27: when generateImages has returned a result, runCLI has ended the
\* process with a non-zero exit code if the errors list is non-empty, and has
\* returned without any process.exit() if it is empty.
C27_ExitCode ==
    cli.result.has
        => /\ Len(cli.result.errors) > 0 => cli.pc = "exited" /\ cli.exitCode > 0
           /\ Len(cli.result.errors) = 0 => cli.pc = "returned" /\ cli.exitCode = 0

\* C27 witness: a result with one error ended the process with code 1
C27_Witness ==
    /\ cli.result.has /\ Len(cli.result.errors) = 1
    /\ cli.pc = "exited" /\ cli.exitCode = 1

\* a JavaScript number that is an integer >= 1
IsIntegerAtLeastOne(v) == ~v.nan /\ ~v.inf /\ v.n >= 1

\* C28: whatever the arguments, parseArgs yields rows, columns and concurrency
\* that are integers >= 1 and aspectRatio, resolution, format and existing
\* inside their enumerated sets.
C28_ParsedOptionsValid ==
    cli.pc \notin {"idle", "called"}
        => /\ IsIntegerAtLeastOne(cli.args.rows)
           /\ IsIntegerAtLeastOne(cli.args.columns)
           /\ IsIntegerAtLeastOne(cli.args.concurrency)
           /\ cli.args.aspectRatio \in AspectRatios
           /\ cli.args.resolution \in Resolutions
           /\ cli.args.format \in OutputFormats
           /\ cli.args.existing \in {"overwrite", "skip"}

(***************************************************************************)
(* downloadImage (src/src/lib.ts:313-353).                                 *)
(*                                                                         *)
(* An attempt ends as "ok" (the response is ok, its body was read and the  *)
(* file written) or with the error of the step that failed: "transport"    *)
(* (fetch rejects), "http" (the response is not ok), "body" (arrayBuffer() *)
(* rejects) or "write" (writeFile rejects).                                *)
(***************************************************************************)
\* the error caught in the attempt with the zero-based number attempt
DownloadError(kind, attempt) == [type |-> kind, attempt |-> attempt]

\* lib.ts:352  new Error('Failed to download image after all retries')
DownloadFallbackError == [type |-> "fallback", attempt |-> -1]

\* faulty variant: the last attempt is left out
DlLoopContinuesShort(attempt, maxRetries) == attempt < maxRetries

\* lib.ts:323  for (...; attempt <= maxRetries; ...)
DlLoopContinues(attempt, maxRetries) == attempt <= maxRetries

\* lib.ts:323-331 and 352: the head of the loop: the next fetch is sent, or the
\* loop is left and lastError (or the fallback error) is thrown
DlLoopHead(d) ==
    IF DlLoopContinues(d.attempt, d.maxRetries)
    THEN [d EXCEPT !.pc = "fetching", !.fetches = @ + 1]
    ELSE [d EXCEPT !.pc = "threw",
                   !.thrown = IF d.lastError = NoError THEN DownloadFallbackError
                              ELSE d.lastError]

\* lib.ts:342-349: the catch block: the error is kept, and a wait of
\* 1000 * 2 ** attempt follows unless this was the last attempt
DlCatch(d, kind) ==
    LET d1 == [d EXCEPT !.lastError = DownloadError(kind, d.attempt),
                        !.hist = Append(@, kind)] IN
    IF d.attempt < d.maxRetries
    THEN [d1 EXCEPT !.pc = "delaying", !.waits = Append(@, 1000 * Pow2(d.attempt))]
    ELSE DlLoopHead([d1 EXCEPT !.attempt = @ + 1])

\* downloadImage(url, outputPath, maxRetries) has just been called and waits
\* for ensureDirectoryExists
InitDownload ==
    /\ sp = SpIdle
    /\ kb = KbIdle
    /\ cli = CliIdle
    /\ run = RunIdle
    /\ LimiterUnused
    /\ ExecUnused
    /\ ct = CtIdle
    /\ poll = PollIdle
    /\ \E m \in 0..MaxRetriesBound :
         dl = [pc |-> "ensuringDir", maxRetries |-> m, attempt |-> 0, fetches |-> 0,
               waits |-> <<>>, hist |-> <<>>, lastError |-> NoError,
               thrown |-> NoError, written |-> FALSE]

\* lib.ts:319: ensureDirectoryExists settled: the loop is entered, or the
\* error of mkdir leaves downloadImage
DlDirEnsured(ok) ==
    /\ dl.pc = "ensuringDir"
    /\ dl' = IF ok THEN DlLoopHead(dl)
             ELSE [dl EXCEPT !.pc = "threw", !.thrown = DownloadError("mkdir", -1)]
    /\ UNCHANGED notDownload

\* lib.ts:331-338: fetch settled: rejected, with a response that is not ok, or
\* with one that is ok, whose body is then read
DlFetched(outcome) ==
    /\ dl.pc = "fetching"
    /\ dl' = IF outcome = "ok" THEN [dl EXCEPT !.pc = "readingBody"]
             ELSE DlCatch(dl, outcome)
    /\ UNCHANGED notDownload

\* lib.ts:337-340: arrayBuffer() settled: the file is written next
DlBodyRead(ok) ==
    /\ dl.pc = "readingBody"
    /\ dl' = IF ok THEN [dl EXCEPT !.pc = "writing"] ELSE DlCatch(dl, "body")
    /\ UNCHANGED notDownload

\* lib.ts:340-342: writeFile settled: downloadImage returns
DlWritten(ok) ==
    /\ dl.pc = "writing"
    /\ dl' = IF ok THEN [dl EXCEPT !.pc = "returned", !.written = TRUE,
                                   !.hist = Append(@, "ok")]
             ELSE DlCatch(dl, "write")
    /\ UNCHANGED notDownload

\* lib.ts:347 and 323: the wait is over: attempt++ and the head of the loop
DlDelayDone ==
    /\ dl.pc = "delaying"
    /\ dl' = DlLoopHead([dl EXCEPT !.attempt = @ + 1])
    /\ UNCHANGED notDownload

NextDownload ==
    \/ \E ok \in BOOLEAN : DlDirEnsured(ok)
    \/ \E outcome \in {"ok", "http", "transport"} : DlFetched(outcome)
    \/ \E ok \in BOOLEAN : DlBodyRead(ok)
    \/ \E ok \in BOOLEAN : DlWritten(ok)
    \/ DlDelayDone

SpecDownload == InitDownload /\ [][NextDownload]_vars

\* the attempts of the call that have ended, all but the last k failed
FailedAttempts(k) ==
    \A n \in 1..(Len(dl.hist) - k) : dl.hist[n] # "ok"

\* C29: downloadImage sends at most maxRetries+1 fetches; every failed attempt
\* but the (maxRetries+1)-th is followed by a wait and another fetch; it
\* returns at the first attempt that ends ok, with the file written; and after
\* maxRetries+1 failed attempts it throws the error of the last attempt.
C29_DownloadRetries ==
    dl.pc # "idle"
        => /\ dl.fetches <= dl.maxRetries + 1
           /\ dl.pc \in {"fetching", "readingBody", "writing"}
                 => Len(dl.hist) = dl.fetches - 1 /\ FailedAttempts(0)
           /\ dl.pc = "delaying"
                 => /\ Len(dl.hist) = dl.fetches /\ FailedAttempts(0)
                    /\ dl.fetches <= dl.maxRetries
                    /\ Len(dl.waits) = dl.fetches
           /\ dl.pc = "returned"
                 => /\ Len(dl.hist) = dl.fetches /\ FailedAttempts(1)
                    /\ dl.hist[Len(dl.hist)] = "ok"
                    /\ dl.written
                    /\ Len(dl.waits) = dl.fetches - 1
           /\ (dl.pc = "threw" /\ dl.fetches > 0)
                 => /\ dl.fetches = dl.maxRetries + 1
                    /\ Len(dl.hist) = dl.fetches /\ FailedAttempts(0)
                    /\ dl.thrown = DownloadError(dl.hist[Len(dl.hist)], dl.maxRetries)
                    /\ ~dl.written

\* C29 witness: with maxRetries = 1 a 500 answer and then a good one: the call
\* returned after two fetches
C29_Witness ==
    /\ dl.pc = "returned" /\ dl.maxRetries = 1
    /\ dl.hist = <<"http", "ok">> /\ dl.fetches = 2

\* the step of processBatch the batch k is at (x: the executor's state)
StepOf(x, k) == IF x.mainpc = "idle" THEN "new" ELSE x.task[k].st

\* the steps the batch k can be at before it is generated
BeforeGeneration == {"new", "admitted", "rlWait", "rlWait2", "resplitting"}

\* one step of the run seen from batch k: a step of processBatch is entered
\* only from the step before it, which went well
StepInOrder(k) ==
    LET a == StepOf(ex, k)
        b == StepOf(ex', k)
    IN /\ (b = "creating" /\ a # b)
            => /\ a \in BeforeGeneration
               /\ Len(timestamps') > Len(timestamps)
               /\ timestamps'[Len(timestamps')] = now
       /\ (b = "polling" /\ a # b) => a = "creating"
       /\ (b = "downloading" /\ a # b)
            => a = "polling" /\ ex'.task[k].url = ResultUrls[1]
       /\ (b = "splitting" /\ a # b)
            => a = "downloading" /\ k \in files' /\ ex'.task[k].url = ex.task[k].url
       /\ (b = "done" /\ a # b /\ Succeeded(k)')
            => a \in {"splitting", "resplitting"}

\* C30: a batch that is generated goes through its steps in this order, each
\* entered only when the one before went well: admission by the limiter, task
\* submission, polling to success, download of the first result URL to the
\* batch's sheet path, split of that sheet.
C30_StepOrder ==
    [][\A k \in 1..Len(gen'.batches) : StepInOrder(k)]_vars

\* C30 witness: a batch was submitted once, its first result URL downloaded to
\* its sheet path and the sheet split
C30_Witness ==
    /\ gen.pc = "executing"
    /\ \E k \in 1..Len(gen.batches) :
          /\ Succeeded(k) /\ ex.task[k].created = 1 /\ ex.task[k].resplit = "none"
          /\ ex.task[k].url = "u1" /\ k \in files

\* the batches for which a task was submitted
Generated == {k \in 1..Len(gen.batches) : ex.task[k].created >= 1}

\* C31: a batch that is generated takes exactly one slot of the run's limiter
\* between being scheduled and submitting its task: a run in which B batches
\* were generated has recorded exactly B admissions on the limiter.
C31_OneSlotPerBatch ==
    gen.pc = "returned" => Len(admits) = Cardinality(Generated)

\* the errors processBatch can end with once it generates the batch
RegenerationErrors ==
    {"createTask threw", "No image URLs returned", "TaskFailedError", "poll threw",
     "download failed", "split failed"}

\* with existing = 'skip' the sheet of batch k was on disk and splitting it
\* again raised
ResplitFailed(k) == SkipHit(k) /\ ex.task[k].resplit = "failed"

\* C32: with existing = 'skip', the sheet on disk and its re-split failing, the
\* batch is not failed at that point: it takes a slot and submits a task, goes
\* on to poll, download (the sheet is written again) and split, and its outcome
\* is the outcome of that regeneration: a success with the sheet path and the
\* split's images, or the error of the step of the regeneration that raised.
C32_ResplitFallsThrough ==
    PartitionDone =>
        \A k \in 1..Len(gen.batches) : ResplitFailed(k) =>
            /\ ex.task[k].created = 1
            /\ ex.task[k].st \in {"creating", "polling", "downloading", "splitting", "done"}
            /\ ex.task[k].st \in {"splitting", "done"} /\ ex.task[k].url # "none"
                  => k \in files
            /\ ex.task[k].st = "done" =>
                  IF ex.task[k].fault = "none"
                  THEN /\ ex.task[k].url = FirstResultUrl(ResultUrls)
                       /\ ex.results[k] =
                             [status |-> "fulfilled", value |-> BatchSuccess(k, gen)]
                  ELSE /\ ex.task[k].fault \in RegenerationErrors
                       /\ ex.results[k] = BatchTaskCaught(k, ex.task[k].fault)

\* C32 witness: the re-split of the sheet of batch 1 failed, the batch was
\* generated and succeeded
C32_Witness ==
    /\ gen.pc = "returned" /\ Len(gen.batches) >= 1
    /\ ResplitFailed(1) /\ ex.task[1].created = 1
    /\ Succeeded(1) /\ ex.task[1].url = "u1"
    /\ gen.result.errors = <<>>

\* C33: when polling returns a result whose resultUrls is empty or missing, the
\* batch is reported as failed, with one entry of errors carrying its batch
\* index, and neither a download nor a split is made for it.
C33_NoUrlsFailsBatch ==
    PartitionDone =>
        \A k \in 1..Len(gen.batches) : ex.task[k].polled = "no urls" =>
            /\ ex.task[k].st = "done"
            /\ ex.task[k].url = "none"
            /\ k \in files => k \in gen.pre
            /\ ex.results[k] = BatchTaskCaught(k, "No image URLs returned")
            /\ ex.results[k].value.imagePaths = <<>>
            /\ gen.pc = "returned" =>
                  /\ Cardinality(ErrorsOf(k - 1)) = 1
                  /\ \A i \in ErrorsOf(k - 1) :
                        gen.result.errors[i].error = "No image URLs returned"

\* C33 witness: the task of batch 1 succeeded with no URL; the run returned
\* with the one error of batch 1 and no sheet written
C33_Witness ==
    /\ gen.pc = "returned" /\ Len(gen.batches) >= 1
    /\ ex.task[1].polled = "no urls" /\ ex.task[1].created = 1
    /\ 1 \notin files
    /\ Len(gen.result.errors) = 1 /\ gen.result.errors[1].batchIndex = 0

\* the cells at the places [i*capacity, (i+1)*capacity) of the list, i counted
\* from zero
CellsOfRange(list, i, capacity) ==
    [j \in 1..(IF (i + 1) * capacity <= Len(list) THEN capacity
               ELSE Len(list) - i * capacity) |-> list[i * capacity + j]]

\* C34: with rows*columns >= 1, batch i (from zero) holds exactly the cells at
\* the places [i*capacity, (i+1)*capacity) of the normalized list, in input
\* order; no batch is empty, none holds more than capacity cells, and only the
\* last may hold fewer.
C34_BatchRanges ==
    (PartitionDone /\ Capacity >= 1) =>
        \A k \in 1..Len(gen.batches) :
            /\ (k - 1) * Capacity < Len(gen.cellDefs)
            /\ gen.batches[k] = CellsOfRange(gen.cellDefs, k - 1, Capacity)
            /\ Len(gen.batches[k]) >= 1
            /\ Len(gen.batches[k]) <= Capacity
            /\ k < Len(gen.batches) => Len(gen.batches[k]) = Capacity

\* C34 witness: three cells and capacity 2: batch 0 holds the cells 0 and 1,
\* the last batch the cell 2 alone
C34_Witness ==
    /\ PartitionDone /\ Capacity = 2 /\ Len(gen.cellDefs) = 3
    /\ gen.batches = << <<gen.cellDefs[1], gen.cellDefs[2]>>, <<gen.cellDefs[3]>> >>

\* the tasks runTask was called for
Launched == {k \in 1..ex.numTasks : ex.task[k].st # "new"}

\* the acquire() of runTask found the window full for task k and waited
AdmissionDelayed(k) == ex.task[k].wakeAt > 0

\* task j was started before task i was
StartedBefore(j, i) ==
    /\ PosIn(ex.started, j) >= 1
    /\ PosIn(ex.started, i) = 0 \/ PosIn(ex.started, j) < PosIn(ex.started, i)

\* C35 (as stated): batches begin processing in index order: batch j never
\* starts before every batch i < j has started, also when the limiter delays
\* the start of some batches.
C35_Original ==
    ex.mainpc # "idle" =>
        \A i, j \in 1..ex.numTasks : (i < j) => ~StartedBefore(j, i)

\* C35 (amended): batches are launched in index order: runTask, and with it
\* acquire(), is called for batch j only after it was called for every batch
\* i < j. Processing begins in launch order as long as no admission is delayed:
\* batch j begins before a batch i < j only when the limiter made batch i wait.
C35_LaunchOrder ==
    ex.mainpc # "idle" =>
        /\ Launched = 1..ex.index
        /\ \A k \in 1..ex.numTasks : PosIn(ex.started, k) >= 1 => k \in Launched
        /\ \A i, j \in 1..ex.numTasks :
              (i < j /\ StartedBefore(j, i)) => AdmissionDelayed(i) /\ i \in Launched

\* C35 witness: of three tasks the second waits for the limiter, its timer not
\* yet due, while the third, launched later and admitted at once, has begun
C35_Witness ==
    /\ ex.mainpc # "idle" /\ ex.numTasks = 3
    /\ ex.started = <<1, 3>>
    /\ ex.task[2].st = "rlWait" /\ now < ex.task[2].wakeAt
    /\ AdmissionDelayed(2) /\ ~AdmissionDelayed(3)

\* the ids of the cells of the run are pairwise distinct
DistinctIds ==
    \A a, b \in 1..Len(gen.cellDefs) :
        a # b => gen.cellDefs[a].id # gen.cellDefs[b].id

\* the image files the split of the successful batch k wrote
ImageFiles(k) ==
    {ex.results[k].value.imagePaths[n] :
        n \in 1..Len(ex.results[k].value.imagePaths)}

\* C36: in a run whose cell ids are pairwise distinct no file path is written
\* by two batches: batch i writes batches/batch-<i+1>.<format> and the image
\* files of its own split, and the path sets of different batches are disjoint.
C36_DisjointPaths ==
    (PartitionDone /\ DistinctIds) =>
        \A i, j \in 1..Len(gen.batches) : i # j =>
            /\ BatchImgPath(i) # BatchImgPath(j)
            /\ (Succeeded(i) /\ Succeeded(j))
                  => ImageFiles(i) \cap ImageFiles(j) = {}

\* pollTaskStatus has delivered its result or its error
PollOver == poll.pc \in {"returned", "threw"}

\* C37 (as stated): pollTaskStatus waits intervalMs only between consecutive
\* status fetches: no wait comes before the first fetch and none between the
\* last fetch and the result or the error.
C37_Original ==
    poll.pc # "idle" =>
        /\ poll.fetches = 0 => poll.waits = <<>>
        /\ \A n \in 1..Len(poll.waits) : poll.waits[n] = poll.interval
        /\ (PollOver /\ poll.fetches >= 1) => Len(poll.waits) = poll.fetches - 1

\* C37 (amended): no wait comes before the first fetch, and one wait follows
\* every fetch whose response does not end the polling, the last fetch
\* included: the result, a TaskFailedError and the KieApiError of the fifth
\* consecutive error are delivered without a wait after the last fetch, but a
\* TaskTimeoutError only after the wait that follows the maxAttempts-th fetch.
\* A wait lasts intervalMs, except after an HTTP 429, where it lasts the
\* Retry-After seconds or twice intervalMs.
C37_WaitAfterEveryFetch ==
    poll.pc # "idle" =>
        /\ poll.fetches = 0 => poll.waits = <<>>
        /\ poll.pc = "fetching" => Len(poll.waits) = poll.fetches - 1
        /\ poll.pc = "delaying" => Len(poll.waits) = poll.fetches
        /\ poll.pc = "returned" => Len(poll.waits) = poll.fetches - 1
        /\ poll.pc = "threw" =>
              IF poll.thrown.type = "TaskTimeoutError"
              THEN /\ Len(poll.waits) = poll.fetches
                   /\ poll.fetches = poll.maxAttempts
              ELSE Len(poll.waits) = poll.fetches - 1
        /\ \A n \in 1..Len(poll.waits) :
              IF poll.hist[n] = "http429"
              THEN poll.waits[n] \in {1000, 2 * poll.interval}
              ELSE poll.waits[n] = poll.interval

\* C37 witness: two fetches found the task not finished; the timeout was
\* raised after the wait that followed the second
C37_Witness ==
    /\ poll.pc = "threw" /\ poll.thrown.type = "TaskTimeoutError"
    /\ poll.maxAttempts = 2 /\ poll.fetches = 2
    /\ poll.hist = <<"pending", "pending">>
    /\ poll.waits = <<poll.interval, poll.interval>>

\* the crop of a cell of the sheet failed (the dimensions had been read)
CropFailed == sp.pc = "threw" /\ sp.width >= 1 /\ sp.height >= 1

\* the file the crop of the cell with index n writes
FileOfCell(n) ==
    [path |-> CellOutputPath(NameOfCell(n), sp.format),
     rect |-> [left |-> (n % sp.columns) * (sp.width \div sp.columns),
               top |-> (n \div sp.columns) * (sp.height \div sp.rows),
               width |-> sp.width \div sp.columns,
               height |-> sp.height \div sp.rows]]

\* the files on disk once the cells 0..k-1 were written in that order (of two
\* cells with one name the later one's file is there)
FilesOfCellsBefore(k) ==
    {FileOfCell(n) : n \in {m \in 0..(k - 1) :
        \A l \in (m + 1)..(k - 1) : FileOfCell(l).path # FileOfCell(m).path}}

\* C38: when the crop of cell k fails, splitSpriteSheet raises the error at
\* once: the files of the cells 0..k-1 are on disk as they were written, no
\* cell after k is tried, nothing is undone and no path list is returned (a
\* list is returned only when every cell was written).
C38_SplitAbortsOnFailure ==
    /\ CropFailed =>
          LET k == CellIndex(sp.row, sp.col, sp.columns) IN
          /\ k < sp.rows * sp.columns
          /\ sp.writes = k
          /\ Len(sp.outputPaths) = k
          /\ sp.disk = FilesOfCellsBefore(k)
          /\ ~ENABLED NextSplit
    /\ sp.pc = "returned" =>
          /\ sp.writes = sp.rows * sp.columns
          /\ Len(sp.outputPaths) = sp.rows * sp.columns

\* C38 witness: in a 2x2 split the crop of cell 2 failed; the files of the
\* cells 0 and 1 are on disk
C38_Witness ==
    /\ CropFailed /\ sp.rows = 2 /\ sp.columns = 2
    /\ sp.row = 1 /\ sp.col = 0
    /\ sp.writes = 2 /\ Cardinality(sp.disk) = 2

(***************************************************************************)
(* RateLimiter.acquire() over unbounded time (src/src/types.ts:87-108).    *)
(*                                                                         *)
(* acquire() looks only at differences of times, so the clock is kept      *)
(* standing at LiveNow and the passing of TickMs moves every recorded time *)
(* back by TickMs. A timestamp that has left the window is kept at the     *)
(* edge of the window: the next pass through acquire() prunes it all the   *)
(* same. A timer fires when it is due, before more time passes; the timers *)
(* fire by due time, and those due at the same time in the order they were *)
(* armed (timers: the callers with a timer, in that order). In a run with  *)
(* finitely many calls callsLeft counts the calls still to come; in the    *)
(* other runs a caller whose call returned may call again for ever.        *)
(***************************************************************************)
MaxCalls == 3    \* most calls of acquire() in a run with finitely many calls

\* the standing clock: a window fits before it
LiveNow == WindowMs

\* a caller outside acquire(); sleeps: how often its last call slept (2: twice
\* or more)
LiveCaller == [pc |-> "idle", wakeAt |-> 0, sleeps |-> 0]

\* a recorded time once TickMs have passed
MovedBack(t) ==
    IF t - TickMs < LiveNow - rlWindow THEN LiveNow - rlWindow ELSE t - TickMs

InitLive ==
    /\ sp = SpIdle
    /\ kb = KbIdle
    /\ cli = CliIdle
    /\ dl = DlIdle
    /\ ct = CtIdle
    /\ poll = PollIdle
    /\ ExecUnused
    /\ slots = NoSlots
    /\ now = LiveNow
    /\ rlMax \in 1..MaxReq
    /\ rlWindow = WindowMs
    /\ timestamps = <<>>
    /\ admits = <<>>
    /\ caller = [c \in Callers |-> LiveCaller]
    /\ \E bounded \in BOOLEAN :
          run = [pc |-> "live", bounded |-> bounded, timers |-> <<>>,
                 callsLeft |-> IF bounded THEN MaxCalls ELSE 0]

\* types.ts:87-108: one synchronous pass of caller c through acquire(): the
\* timestamp is recorded and the call returns, or the timer is armed
LivePass(c) ==
    LET r == AcquireTry(timestamps, now, rlMax, rlWindow)
        fresh == caller[c].pc = "idle"
    IN
    /\ timestamps' = r.ts
    /\ caller' = [caller EXCEPT ![c] =
          IF r.admitted
          THEN [pc |-> "idle", wakeAt |-> 0, sleeps |-> IF fresh THEN 0 ELSE @.sleeps]
          ELSE [pc |-> "waiting", wakeAt |-> now + r.wait,
                sleeps |-> IF fresh THEN 1
                           ELSE IF @.sleeps < 2 THEN @.sleeps + 1 ELSE @.sleeps]]
    /\ run' = [run EXCEPT
          !.timers = IF r.admitted THEN Without(@, c) ELSE Append(Without(@, c), c),
          !.callsLeft = IF run.bounded /\ caller[c].pc = "idle" THEN @ - 1 ELSE @]
    /\ UNCHANGED <<now, rlMax, rlWindow, admits, slots, ct, poll, sp, kb, cli, dl,
                   ex, files, gen>>

\* a caller calls acquire()
LiveAcquire(c) ==
    /\ run.pc = "live"
    /\ caller[c].pc = "idle"
    /\ run.bounded => run.callsLeft >= 1
    /\ LivePass(c)

\* the timer of caller c is to fire before the timer of caller d
FiresBefore(c, d) ==
    \/ caller[c].wakeAt < caller[d].wakeAt
    \/ /\ caller[c].wakeAt = caller[d].wakeAt
       /\ PosIn(run.timers, c) < PosIn(run.timers, d)

\* types.ts:101-104: the timer of a waiting caller fires and acquire() is
\* entered again
LiveWake(c) ==
    /\ run.pc = "live"
    /\ caller[c].pc = "waiting"
    /\ now >= caller[c].wakeAt
    /\ \A d \in Callers \ {c} : caller[d].pc = "waiting" => FiresBefore(c, d)
    /\ LivePass(c)

\* TickMs pass while no timer is due
LiveTick ==
    /\ run.pc = "live"
    /\ \A c \in Callers : caller[c].pc = "waiting" => now < caller[c].wakeAt
    /\ timestamps' = [n \in 1..Len(timestamps) |-> MovedBack(timestamps[n])]
    /\ caller' = [c \in Callers |->
          IF caller[c].pc = "waiting"
          THEN [caller[c] EXCEPT !.wakeAt = @ - TickMs] ELSE caller[c]]
    /\ UNCHANGED <<now, rlMax, rlWindow, admits, slots, notRL>>

NextLive ==
    \/ \E c \in Callers : LiveAcquire(c)
    \/ \E c \in Callers : LiveWake(c)
    \/ LiveTick

\* time goes on and every timer that is due fires
SpecLive ==
    /\ InitLive /\ [][NextLive]_vars
    /\ WF_vars(LiveTick)
    /\ \A c \in Callers : WF_vars(LiveWake(c))

\* the call of caller c has not returned
InAcquire(c) == caller[c].pc = "waiting"

\* a pass of a caller through acquire() that ends in a wait (on the call, or
\* on waking with a later timer armed) records no timestamp, and the pass
\* that lets a waiting caller return records exactly one, the time of the
\* return
RecordsOnReturn ==
    \A c \in Callers :
        /\ (caller'[c].pc = "waiting"
               /\ (caller[c].pc = "idle" \/ caller'[c].wakeAt > caller[c].wakeAt))
              => timestamps' = Pruned(timestamps, now, rlWindow)
        /\ (caller[c].pc = "waiting" /\ caller'[c].pc = "idle")
              => timestamps' = Append(Pruned(timestamps, now, rlWindow), now)

\* C39 (as stated): with maxRequests >= 1 and time going on, every acquire()
\* call returns in the end, for any finite number of concurrent callers; a
\* caller still waiting has recorded no timestamp.
C39_Original ==
    /\ \A c \in Callers : InAcquire(c) ~> ~InAcquire(c)
    /\ [][RecordsOnReturn]_vars

\* C39 (amended): with maxRequests >= 1 and time going on, every acquire()
\* call returns in the end when only finitely many calls are made; acquire()
\* has no way to fail, a pass that ends in a wait records no timestamp and the
\* pass that returns records one. (A waiting call can be overtaken for ever by
\* calls that keep arriving when a slot has just become free.)
C39_AcquireReturns ==
    /\ \A c \in Callers : (run.bounded /\ InAcquire(c)) ~> ~InAcquire(c)
    /\ [][RecordsOnReturn]_vars

\* C39 witness: in a run with finitely many calls a caller slept twice, a later
\* call having taken the slot it waited for, and its call has returned
C39_Witness ==
    /\ run.pc = "live" /\ run.bounded
    /\ \E c \in Callers : caller[c].pc = "idle" /\ caller[c].sleeps = 2

\* C40: every entry of errors carries the zero-based index of a batch of the
\* run (0 <= batchIndex < totalBatches), no batch index occurs twice, and the
\* unknown index -1 never occurs: every batch task fulfils, with a failed
\* BatchResult when its processing raised.
C40_ErrorIndices ==
    gen.pc = "returned" =>
        LET errors == gen.result.errors IN
        /\ \A i \in 1..Len(errors) :
              /\ errors[i].batchIndex >= 0
              /\ errors[i].batchIndex < gen.result.totalBatches
              /\ ~Succeeded(errors[i].batchIndex + 1)
        /\ \A i, j \in 1..Len(errors) :
              i # j => errors[i].batchIndex # errors[j].batchIndex
        /\ \A k \in 1..Len(gen.batches) : ex.results[k].status = "fulfilled"

\* C40 witness: both batches of a run failed, the second one first; errors
\* holds the indices 0 and 1
C40_Witness ==
    /\ gen.pc = "returned" /\ Len(gen.batches) = 2
    /\ ex.finished = <<2, 1>>
    /\ Len(gen.result.errors) = 2
    /\ gen.result.errors[1].batchIndex = 0
    /\ gen.result.errors[2].batchIndex = 1

====
